---- MODULE Spec2Model ----
(***************************************************************************)
(* Model of the J.A.R.V.I.S core: the EventBus (jarvis/core/event_bus.py)  *)
(* and the ContextManager (jarvis/core/context_manager.py).                *)
(*                                                                         *)
(* The bus keeps its pending events in an asyncio.PriorityQueue, i.e. a    *)
(* list ordered by CPython's heapq (the C accelerator _heapq), holding     *)
(* tuples (event.priority.value, event).  Event is a dataclass with        *)
(* eq=True and order=False: two events compare equal when all their fields *)
(* are equal, and `<` between two unequal events raises TypeError.  The    *)
(* heap operations below are the ones of _heapq, including the list they   *)
(* leave behind when a comparison raises.                                  *)
(***************************************************************************)
EXTENDS Integers, Sequences, FiniteSets, TLC

\* ------------------------------------------------------------------ bounds
\* publish calls in SpecBus
MaxEvents == 3
\* publish calls in SpecQueue
MaxBurst == 7
\* publish calls in SpecFanout
MaxFan == 2

\* publish calls in SpecHistory: one more than the history holds
MaxHistoryRun == 1001
\* publish calls of SpecHistory whose event is chosen freely, and during which
\* the dispatch loop takes events
MaxMix == 2

\* publish calls in SpecLife
MaxLife == 2
\* publish calls in SpecLoops
MaxLoopEvents == 3
\* publish calls in SpecQuery
MaxQueryEvents == 3
\* publish calls from outside the handlers in SpecChain
MaxChain == 2
\* publish calls in SpecRestart
MaxRestart == 3
\* set_context calls in SpecStats
MaxStatsSets == 1
\* publish calls in SpecHandlerStop
MaxStopper == 2
\* set_context calls in SpecLoops
MaxLoopSets == 1
\* publish calls in SpecHang
MaxHang == 2

\* publish calls in SpecSubs
MaxSubEvents == 2

\* add_to_conversation_history calls in SpecConv: one more than a history holds
MaxAppends == 1001
\* calls of SpecConv whose arguments are chosen freely, the clock moving
MaxFreeAppends == 2

\* set_context calls in SpecExpiry and SpecSession
MaxSets == 2
\* create_session calls in SpecSession
MaxSessions == 2
\* clock readings 0..MaxTime in SpecExpiry
MaxTime == 2

\* ContextManager calls in flight at a time in SpecTasks
MaxPending == 2
\* create_session calls in SpecTasks
MaxTaskSessions == 1
\* add_to_conversation_history calls in SpecUsers
MaxUserAppends == 1
\* add_to_conversation_history calls in SpecTasks
MaxTaskAppends == 1

\* ------------------------------------------------------- inputs of the bus
EventTypes == {"t1", "t2"}
Handlers == {"h1", "h2"}
EventData == {"d1", "d2"}

\* EventPriority
CRITICAL == 1
HIGH == 2
NORMAL == 3
LOW == 4
EventPriority == {CRITICAL, HIGH, NORMAL, LOW}

\* EventBus._max_history
max_history == 1000

\* the (type, data, priority) of the events published in SpecBus
PublishInputs ==
    {<<"t1", "d1", NORMAL>>, <<"t1", "d2", NORMAL>>,
     <<"t1", "d1", CRITICAL>>, <<"t2", "d1", NORMAL>>}

\* the (type, handler) pairs subscribed and unsubscribed in SpecBus
Subscriptions == {<<"t1", "h1">>, <<"t1", "h2">>}

\* the (type, data, priority) of the events published in SpecFanout
FanInputs ==
    {<<"t1", "d1", NORMAL>>, <<"t1", "d1", CRITICAL>>, <<"t2", "d1", NORMAL>>}

\* the (type, data, priority) of the events published in SpecQueue
BurstInputs ==
    {<<"t1", "d1", CRITICAL>>, <<"t1", "d2", CRITICAL>>, <<"t1", "d1", HIGH>>}

\* the (type, data, priority) of the events published in SpecHistory
HistoryInputs == {<<"t1", "d1", NORMAL>>, <<"t1", "d2", NORMAL>>}

\* the event of the long run of SpecHistory
HistoryFill == <<"t1", "d1", NORMAL>>

\* the (type, data, priority) of the events published from outside the
\* handlers in SpecChain
ChainInputs == {<<"t1", "d1", NORMAL>>}

\* the handler that publishes a further event, as
\* SpeechProcessor._handle_speech_input does
Chainer == "h1"

\* the type of the further events; no handler subscribes to it
ChainType == "t2"

\* the data of a further event is made from the event handled: the data of
\* the event published while event p is handled
ChainData == <<"c1", "c2", "c3", "c4", "c5", "c6", "c7", "c8">>

\* the (type, data, priority) of the events published in SpecRestart
RestartInputs ==
    {<<"t1", "d1", CRITICAL>>, <<"t1", "d1", NORMAL>>, <<"t1", "d2", NORMAL>>}

\* the (type, data, priority) of the events published in SpecQuery
QueryInputs == {<<"t1", "d1", HIGH>>, <<"t2", "d1", NORMAL>>, <<"t1", "d2", LOW>>}

\* the event_type arguments of get_event_history: "None" is the argument left
\* out (or None), "" the empty string, "t3" a type no event has
QueryTypes == {"None", "", "t1", "t2", "t3"}

\* the limit arguments of get_event_history
QueryLimits == {-1, 0, 1, 2, 5}

\* the (type, data, priority) of the events published in SpecLife and SpecHang
LifeInputs == {<<"t1", "d1", NORMAL>>}

\* the (type, handler) pairs of the subscribe and unsubscribe calls of SpecSubs
SubPairs == {<<"t1", "h1">>, <<"t1", "h2">>, <<"t2", "h1">>}

\* the (type, data, priority) of the events published in SpecSubs
SubInputs == {<<"t1", "d1", NORMAL>>, <<"t2", "d1", NORMAL>>}

VARIABLES
    subscribers,      \* EventBus._subscribers: event type -> list of handlers
    event_queue,      \* EventBus._event_queue: the heap list of (priority, event)
    running,          \* EventBus._running
    processor_task,   \* EventBus._processor_task: "none", "polling", "gathering", "done"
    event_history,    \* EventBus._event_history
    current,          \* id of the event being distributed, 0 when none
    handlers,         \* _distribute_event: the copied handler list
    results,          \* _distribute_event: the handler tasks, "pending" until run
    published,        \* log of publish calls: <<[event, ret]>>
    dequeued,         \* log of the ids the dispatch loop took from the queue
    calls,            \* log: event id -> handler -> number of invocations
    raised,           \* log: event id -> handlers that raised for it
    offered,          \* log: event id -> handlers registered when it was dequeued
    completed,        \* log: ids whose distribution ran to its end
    everStopped,      \* log: stop() has cancelled a dispatch loop
    orphan,           \* a loop task that outlived its cancel and is no longer
                      \* referenced by _processor_task: [state, current, handlers, results]
    awaited,          \* the task a suspended stop() awaits: "none", "main", "orphan"
    quiet,            \* log: a stop() of the running bus has returned, no start() since
    reply,            \* log: the last call of the bus API and what it returned
    answer,           \* log: the last get_event_history call and the list it returned
    contexts,         \* ContextManager._contexts: scope -> full key -> ContextEntry
    user_contexts,    \* ContextManager._user_contexts: user id -> UserContext
    sessions,         \* ContextManager._sessions: session id -> user id
    cleanup_task,     \* ContextManager._cleanup_task: "none", "running", and
                      \* "cancelled" or "finished" once stop() has ended it
    sweepers,         \* number of _cleanup_loop tasks created and not done
    now,              \* the clock read by datetime.now()
    uuids,            \* number of ids uuid.uuid4() has produced
    sets,             \* log: number of set_context calls
    last,             \* log: the last ContextManager call, its arguments and result
    messages,         \* the message dicts handed to add_to_conversation_history,
                      \* by identity: object id -> [content, timestamp]
    appends,          \* log of add_to_conversation_history calls: [user_id, message, at]
    tasks,            \* the ContextManager calls in flight as coroutines: slot -> call
    lock,             \* ContextManager._lock: the slot of the holder, 0 when free
    thread,           \* the slot of the coroutine the event loop is running, 0 when none
    finished          \* log: the call that returned last

busVars == <<subscribers, event_queue, running, processor_task, event_history,
             current, handlers, results, published, dequeued, calls, raised,
             offered, completed, everStopped, orphan, awaited, quiet, reply,
             answer>>

\* the variables of the bus that only start(), stop() and the logged calls write
lifeVars == <<orphan, awaited, quiet, reply>>

\* the variables only add_to_conversation_history writes
convVars == <<messages, appends>>

\* the variables of the calls followed step by step
taskVars == <<tasks, lock, thread, finished>>

ctxVars == <<contexts, user_contexts, sessions, cleanup_task, sweepers, now, uuids,
             sets, last, convVars, taskVars>>

vars == <<busVars, ctxVars>>

\* ------------------------------------------------------------------ Event
\* The field data stands for the fields data, timestamp, source_module and
\* correlation_id; id is the identity of the Python object.
Event(id, type, data, priority) ==
    [id |-> id, type |-> type, data |-> data, priority |-> priority]

\* dataclass __eq__: field-wise, identity plays no part
EventEq(a, b) ==
    /\ a.type = b.type
    /\ a.data = b.data
    /\ a.priority = b.priority

\* (priority.value, event) as put on the queue
QueueItem(event) == [priority |-> event.priority, event |-> event]

\* tuple `a < b`: "lt", "ge", or "err" when the events have to be ordered
ItemLess(a, b) ==
    IF a.priority # b.priority
    THEN (IF a.priority < b.priority THEN "lt" ELSE "ge")
    ELSE IF EventEq(a.event, b.event) THEN "ge" ELSE "err"

\* ------------------------------------------------------------------ heapq
\* positions are 0-based as in the C code; heap[pos + 1] is the element
Swap(heap, i, j) ==
    [heap EXCEPT ![i + 1] = heap[j + 1], ![j + 1] = heap[i + 1]]

RECURSIVE siftdown(_, _, _)
siftdown(heap, startpos, pos) ==
    IF pos > startpos
    THEN LET parentpos == (pos - 1) \div 2
             cmp == ItemLess(heap[pos + 1], heap[parentpos + 1])
         IN  IF cmp = "err" THEN [heap |-> heap, ok |-> FALSE]
             ELSE IF cmp = "ge" THEN [heap |-> heap, ok |-> TRUE]
             ELSE siftdown(Swap(heap, pos, parentpos), startpos, parentpos)
    ELSE [heap |-> heap, ok |-> TRUE]

RECURSIVE siftupFrom(_, _, _)
siftupFrom(heap, startpos, pos) ==
    LET endpos == Len(heap)
        limit == endpos \div 2
        leftpos == 2 * pos + 1
    IN  IF pos < limit
        THEN LET cmp == IF leftpos + 1 < endpos
                        THEN ItemLess(heap[leftpos + 1], heap[leftpos + 2])
                        ELSE "lt"
                 childpos == IF cmp = "lt" THEN leftpos ELSE leftpos + 1
             IN  IF cmp = "err" THEN [heap |-> heap, ok |-> FALSE]
                 ELSE siftupFrom(Swap(heap, childpos, pos), startpos, childpos)
        ELSE siftdown(heap, startpos, pos)

siftup(heap, pos) == siftupFrom(heap, pos, pos)

\* heappush: append, then sift; the item stays in the list when sifting raises
heappush(heap, item) ==
    LET appended == Append(heap, item)
    IN  siftdown(appended, 0, Len(appended) - 1)

\* heappop of a non-empty heap: [heap, ok, item]; when sifting raises the
\* former root is dropped and the last element has taken its place
heappop(heap) ==
    LET lastelt == heap[Len(heap)]
        rest == SubSeq(heap, 1, Len(heap) - 1)
    IN  IF rest = <<>>
        THEN [heap |-> rest, ok |-> TRUE, item |-> lastelt]
        ELSE LET returnitem == rest[1]
                 r == siftup([rest EXCEPT ![1] = lastelt], 0)
             IN  [heap |-> r.heap, ok |-> r.ok, item |-> returnitem]

\* ---------------------------------------------------------------- helpers
Range(s) == {s[i] : i \in 1..Len(s)}

Remove(s, x) ==
    LET i == CHOOSE k \in 1..Len(s) : s[k] = x
    IN  SubSeq(s, 1, i - 1) \o SubSeq(s, i + 1, Len(s))

Put(f, k, v) == [x \in DOMAIN f \cup {k} |-> IF x = k THEN v ELSE f[x]]

Drop(f, keys) == [x \in DOMAIN f \ keys |-> f[x]]

EventOf(id) == published[id].event

NoCalls == [h \in Handlers |-> 0]

Registered(type) ==
    IF type \in DOMAIN subscribers THEN Range(subscribers[type]) ELSE {}

\* no loop task besides the one _processor_task refers to
NoLoop == [state |-> "none", current |-> 0, handlers |-> << >>, results |-> << >>]

\* the record of a call of the bus API in the log
Reply(op, type, handler, ret) ==
    [op |-> op, type |-> type, handler |-> handler, ret |-> ret]

\* the record of a get_event_history call in the log
Answer(event_type, limit, result) ==
    [event_type |-> event_type, limit |-> limit, result |-> result]

\* ------------------------------------------------------------------- Init
BusInit ==
    /\ subscribers = << >>
    /\ event_queue = << >>
    /\ running = FALSE
    /\ processor_task = "none"
    /\ event_history = << >>
    /\ current = 0
    /\ handlers = << >>
    /\ results = << >>
    /\ published = << >>
    /\ dequeued = << >>
    /\ calls = << >>
    /\ raised = << >>
    /\ offered = << >>
    /\ completed = {}
    /\ everStopped = FALSE
    /\ orphan = NoLoop
    /\ awaited = "none"
    /\ quiet = FALSE
    /\ reply = Reply("init", "", "", "")
    /\ answer = Answer("None", 0, << >>)

\* ------------------------------------------------------------ EventBus API
\* the loop task _processor_task refers to is not done
alive == processor_task \in {"polling", "gathering"}

\* start(): no-op when running, else sets _running and creates the loop task.
\* The new task replaces the reference in _processor_task; a task that outlived
\* its cancel runs on without a reference.
start ==
    IF running
    THEN UNCHANGED <<running, processor_task, current, handlers, results,
                     orphan, awaited, quiet>>
    ELSE /\ running' = TRUE
         /\ processor_task' = "polling"
         /\ current' = 0
         /\ handlers' = << >>
         /\ results' = << >>
         /\ quiet' = FALSE
         /\ IF alive
            THEN /\ orphan' = [state |-> processor_task, current |-> current,
                               handlers |-> handlers, results |-> results]
                 /\ awaited' = IF awaited = "main" THEN "orphan" ELSE awaited
            ELSE UNCHANGED <<orphan, awaited>>

Start ==
    /\ ~running
    /\ start
    /\ UNCHANGED <<subscribers, event_queue, event_history, published, dequeued,
                   calls, raised, offered, completed, everStopped, reply, ctxVars, answer>>

\* stop(): no-op when not running; else clears _running, cancels the loop task
\* (and with it the gather and the handler tasks not yet finished) and awaits it.
\* This is the stop whose cancel ends the loop task.
stop ==
    IF ~running
    THEN UNCHANGED <<running, processor_task, current, handlers, results,
                     everStopped, quiet>>
    ELSE /\ running' = FALSE
         /\ processor_task' = "done"
         /\ current' = 0
         /\ handlers' = << >>
         /\ results' = << >>
         /\ everStopped' = TRUE
         /\ quiet' = TRUE

Stop ==
    /\ running
    /\ stop
    /\ UNCHANGED <<subscribers, event_queue, event_history, published, dequeued,
                   calls, raised, offered, completed, orphan, awaited, reply, ctxVars, answer>>

\* start(), logged; it has no return value
StartCall ==
    /\ start
    /\ reply' = Reply("start", "", "", "None")
    /\ UNCHANGED <<subscribers, event_queue, event_history, published, dequeued,
                   calls, raised, offered, completed, everStopped, ctxVars, answer>>

\* stop(), logged
StopCall ==
    /\ stop
    /\ reply' = Reply("stop", "", "", "None")
    /\ UNCHANGED <<subscribers, event_queue, event_history, published, dequeued,
                   calls, raised, offered, completed, orphan, awaited, ctxVars, answer>>

\* mutant of subscribed: the handler is appended whether registered or not
subscribedAgain(event_type, handler) ==
    Append(IF event_type \in DOMAIN subscribers THEN subscribers[event_type] ELSE << >>,
           handler)

\* the handler list of a type after subscribe(event_type, handler)
subscribed(event_type, handler) ==
    LET old == IF event_type \in DOMAIN subscribers
               THEN subscribers[event_type] ELSE << >>
    IN  IF handler \in Range(old) THEN old ELSE Append(old, handler)

Subscribe(event_type, handler) ==
    /\ subscribers' = [t \in DOMAIN subscribers \cup {event_type} |->
                          IF t = event_type THEN subscribed(event_type, handler)
                          ELSE subscribers[t]]
    /\ subscribers' # subscribers
    /\ UNCHANGED <<event_queue, running, processor_task, event_history, current,
                   handlers, results, published, dequeued, calls, raised,
                   offered, completed, everStopped, ctxVars, answer, lifeVars>>

Unsubscribe(event_type, handler) ==
    /\ event_type \in DOMAIN subscribers
    /\ handler \in Range(subscribers[event_type])
    /\ subscribers' = [subscribers EXCEPT
                          ![event_type] = Remove(subscribers[event_type], handler)]
    /\ UNCHANGED <<event_queue, running, processor_task, event_history, current,
                   handlers, results, published, dequeued, calls, raised,
                   offered, completed, everStopped, ctxVars, answer, lifeVars>>

\* mutant of appendHistory: nothing is evicted
appendHistoryUncapped(history, event) == Append(history, event)

\* mutant of unsubscribed: the whole handler list of the type is dropped
unsubscribedAll(event_type, handler) == << >>

\* the handler list of a type after a successful unsubscribe(event_type, handler)
unsubscribed(event_type, handler) == Remove(subscribers[event_type], handler)

\* subscribe(event_type, handler), logged with its return value
SubscribeCall(event_type, handler) ==
    /\ subscribers' = Put(subscribers, event_type, subscribed(event_type, handler))
    /\ reply' = Reply("subscribe", event_type, handler,
                      IF handler \in Registered(event_type) THEN "False" ELSE "True")
    /\ UNCHANGED <<event_queue, running, processor_task, event_history, current,
                   handlers, results, published, dequeued, calls, raised,
                   offered, completed, everStopped, orphan, awaited, quiet, ctxVars, answer>>

\* unsubscribe(event_type, handler), logged with its return value
UnsubscribeCall(event_type, handler) ==
    /\ IF event_type \in DOMAIN subscribers /\ handler \in Range(subscribers[event_type])
       THEN /\ subscribers' = [subscribers EXCEPT
                                  ![event_type] = unsubscribed(event_type, handler)]
            /\ reply' = Reply("unsubscribe", event_type, handler, "True")
       ELSE /\ subscribers' = subscribers
            /\ reply' = Reply("unsubscribe", event_type, handler, "False")
    /\ UNCHANGED <<event_queue, running, processor_task, event_history, current,
                   handlers, results, published, dequeued, calls, raised,
                   offered, completed, everStopped, orphan, awaited, quiet, ctxVars, answer>>

\* get_subscriber_count(event_type): len(self._subscribers.get(event_type, []))
get_subscriber_count(event_type) ==
    IF event_type \in DOMAIN subscribers THEN Len(subscribers[event_type]) ELSE 0

\* mutant of get_all_event_types: only the types that have a handler
get_all_event_typesActive == {t \in DOMAIN subscribers : subscribers[t] # << >>}

\* get_all_event_types(): list(self._subscribers.keys()), as the set of its
\* elements (the table of the model keeps no insertion order)
get_all_event_types == DOMAIN subscribers

\* get_subscriber_count(event_type), logged with the number it returns
GetSubscriberCount(event_type) ==
    /\ reply' = [count |-> get_subscriber_count(event_type)]
                    @@ Reply("get_subscriber_count", event_type, "", "")
    /\ UNCHANGED <<subscribers, event_queue, running, processor_task, event_history,
                   current, handlers, results, published, dequeued, calls, raised,
                   offered, completed, everStopped, orphan, awaited, quiet, ctxVars, answer>>

\* get_all_event_types(), logged with the types it returns
GetAllEventTypes ==
    /\ reply' = [types |-> get_all_event_types]
                    @@ Reply("get_all_event_types", "", "", "")
    /\ UNCHANGED <<subscribers, event_queue, running, processor_task, event_history,
                   current, handlers, results, published, dequeued, calls, raised,
                   offered, completed, everStopped, orphan, awaited, quiet, ctxVars, answer>>

\* _event_history after one more event: append, evict the oldest over the cap
appendHistory(history, event) ==
    LET h == Append(history, event)
    IN  IF Len(h) > max_history THEN Tail(h) ELSE h

\* what put() does to the queue: [heap, ok]
put(queue, event) == heappush(queue, QueueItem(event))

\* publish(event): start the loop if needed, put (priority, event) on the
\* queue, then record the event; an exception of put is caught and gives False
publish(type, data, priority) ==
    /\ LET event == Event(Len(published) + 1, type, data, priority)
           r == put(event_queue, event)
       IN  /\ start
           /\ event_queue' = r.heap
           /\ event_history' = IF r.ok THEN appendHistory(event_history, event)
                               ELSE event_history
           /\ published' = Append(published, [event |-> event, ret |-> r.ok])
           /\ calls' = Append(calls, NoCalls)
           /\ raised' = Append(raised, {})
           /\ offered' = Append(offered, {})
    /\ UNCHANGED <<subscribers, dequeued, completed, everStopped, reply, ctxVars, answer>>

Publish(type, data, priority) ==
    /\ Len(published) < MaxEvents
    /\ publish(type, data, priority)

PublishFan(type, data, priority) ==
    /\ Len(published) < MaxFan
    /\ publish(type, data, priority)

PublishSub(type, data, priority) ==
    /\ Len(published) < MaxSubEvents
    /\ publish(type, data, priority)

PublishLife(type, data, priority) ==
    /\ Len(published) < MaxLife
    /\ publish(type, data, priority)

\* few events, published once a handler is subscribed
PublishLoops(type, data, priority) ==
    /\ Len(published) < MaxLoopEvents
    /\ subscribers # << >>
    /\ publish(type, data, priority)

PublishChain(type, data, priority) ==
    /\ Cardinality({id \in 1..Len(published) : EventOf(id).type # ChainType}) < MaxChain
    /\ publish(type, data, priority)

PublishRestart(type, data, priority) ==
    /\ Len(published) < MaxRestart
    /\ publish(type, data, priority)

PublishQuery(type, data, priority) ==
    /\ Len(published) < MaxQueryEvents
    /\ publish(type, data, priority)

PublishHang(type, data, priority) ==
    /\ Len(published) < MaxHang
    /\ publish(type, data, priority)

PublishBurst(type, data, priority) ==
    /\ Len(published) < MaxBurst
    /\ publish(type, data, priority)

\* a long run of publish calls: the first MaxMix events are free, the rest
\* are the same event over and over
PublishHistory(type, data, priority) ==
    /\ Len(published) < MaxHistoryRun
    /\ Len(published) >= MaxMix => <<type, data, priority>> = HistoryFill
    /\ publish(type, data, priority)

\* ------------------------------------------------------- get_event_history
\* `if event_type:` : None and the empty string are falsy
given(event_type) == event_type \notin {"None", ""}

\* [e for e in history if e.type == event_type] when event_type is truthy
ofType(history, event_type) ==
    IF given(event_type)
    THEN SelectSeq(history, LAMBDA e : e.type = event_type)
    ELSE history

\* history[k:] of a Python list, k >= 0 counted from the front
sliceFrom(history, k) ==
    IF k >= Len(history) THEN << >> ELSE SubSeq(history, k + 1, Len(history))

\* `history[-limit:] if limit else history`: limit 0 is falsy and gives the
\* whole list; a positive limit counts from the end (the whole list when the
\* list is shorter); for a negative limit -limit is a start from the front
lastOf(history, limit) ==
    IF limit > 0 THEN sliceFrom(history, IF limit >= Len(history) THEN 0 ELSE Len(history) - limit)
    ELSE IF limit = 0 THEN history
    ELSE sliceFrom(history, -limit)

\* get_event_history(event_type, limit), a plain function: copy, filter, slice
get_event_history(event_type, limit) == lastOf(ofType(event_history, event_type), limit)

GetEventHistory(event_type, limit) ==
    /\ answer' = Answer(event_type, limit, get_event_history(event_type, limit))
    /\ UNCHANGED <<subscribers, event_queue, running, processor_task, event_history,
                   current, handlers, results, published, dequeued, calls, raised,
                   offered, completed, everStopped, lifeVars, ctxVars>>

\* ------------------------------------------------------- the dispatch loop
\* mutant of copySubscribers: the copy misses the handler registered last
copySubscribersShort(type) ==
    IF type \in DOMAIN subscribers /\ subscribers[type] # << >>
    THEN SubSeq(subscribers[type], 1, Len(subscribers[type]) - 1)
    ELSE << >>

\* subscribers[event.type].copy(), or nothing when the type has no entry
copySubscribers(type) ==
    IF type \in DOMAIN subscribers THEN subscribers[type] ELSE << >>

\* what get() does to the queue: [heap, ok, item]
get(queue) == heappop(queue)

\* `while self._running` at the top of the loop: the task goes on or ends
loopTop(run) == IF run THEN "polling" ELSE "done"

\* one iteration of _process_events up to the gather of _distribute_event:
\* get() either raises (caught, next iteration) or yields the event; run is
\* _running as the loop finds it when it comes back to its top
takeEvent(run) ==
    LET got == get(event_queue)
        event == got.item.event
        copied == copySubscribers(event.type)
    IN  /\ event_queue' = got.heap
        /\ IF ~got.ok
           THEN /\ processor_task' = loopTop(run)
                /\ UNCHANGED <<current, handlers, results, dequeued, offered, completed>>
           ELSE /\ dequeued' = Append(dequeued, event.id)
                /\ offered' = [offered EXCEPT ![event.id] = Registered(event.type)]
                /\ IF copied = << >>
                   THEN /\ completed' = completed \cup {event.id}
                        /\ processor_task' = loopTop(run)
                        /\ UNCHANGED <<current, handlers, results>>
                   ELSE /\ completed' = completed
                        /\ processor_task' = "gathering"
                        /\ current' = event.id
                        /\ handlers' = copied
                        /\ results' = [i \in 1..Len(copied) |-> "pending"]

ProcessEvent ==
    /\ running
    /\ processor_task = "polling"
    /\ event_queue # << >>
    /\ takeEvent(TRUE)
    /\ UNCHANGED <<subscribers, running, event_history, published, calls,
                   raised, everStopped, ctxVars, answer, lifeVars>>

\* mutant of taskHandler: the tasks read the live handler list, not the copy
taskHandlerLive(i) ==
    LET live == copySubscribers(EventOf(current).type)
    IN  IF i <= Len(live) THEN live[i] ELSE handlers[i]

\* the handler bound into the i-th task created by _distribute_event
taskHandler(i) == handlers[i]

\* the ways a handler call can go: a coroutine function is awaited, any other
\* callable is called inline by the task (`handler(event)`).  "hung" is a
\* handler suspended at an await that never completes; "blocked" is a handler
\* that never gives control back: a plain function that does not return, or a
\* coroutine that never awaits.
Outcomes == {"returned", "raised", "hung", "blocked"}

\* no handler holds the thread of the event loop: other tasks can run
runnable == \A i \in 1..Len(results) : results[i] # "blocked"

\* _call_handler in the i-th task
CallHandler(i, outcome) ==
    /\ processor_task = "gathering"
    /\ i \in 1..Len(results)
    /\ results[i] = "pending"
    /\ results' = [results EXCEPT ![i] = outcome]
    /\ calls' = [calls EXCEPT ![current][taskHandler(i)] = @ + 1]
    /\ raised' = IF outcome = "raised"
                 THEN [raised EXCEPT ![current] = @ \cup {taskHandler(i)}]
                 ELSE raised
    /\ UNCHANGED <<subscribers, event_queue, running, processor_task,
                   event_history, current, handlers, published, dequeued,
                   offered, completed, everStopped, ctxVars, answer, lifeVars>>

\* mutant of afterGather: gather without return_exceptions, uncaught in the loop
afterGatherPropagating(res) ==
    IF \E i \in 1..Len(res) : res[i] = "raised" THEN "done" ELSE "polling"

\* the loop task once gather(return_exceptions=True) has every result:
\* exceptions are results, logged, and the loop goes back to its top
afterGather(res) == loopTop(running)

\* a suspended stop() returns when the task it awaits is done
stopReturns(task, done) == awaited = task /\ done

GatherDone ==
    /\ processor_task = "gathering"
    /\ \A i \in 1..Len(results) : results[i] \notin {"pending", "hung", "stopping"}
    /\ processor_task' = afterGather(results)
    /\ current' = 0
    /\ handlers' = << >>
    /\ results' = << >>
    /\ completed' = completed \cup {current}
    /\ awaited' = IF stopReturns("main", processor_task' = "done") THEN "none" ELSE awaited
    /\ quiet' = IF stopReturns("main", processor_task' = "done") THEN ~running ELSE quiet
    /\ UNCHANGED <<subscribers, event_queue, running, event_history, published,
                   dequeued, calls, raised, offered, everStopped, orphan, reply, ctxVars, answer>>

\* stop() whose cancel reaches the loop task when its get() has completed:
\* asyncio.wait_for of Python 3.8 to 3.11 then returns the item instead of
\* raising CancelledError (Python 3.12 raises).  _running is cleared, the loop
\* goes on with the event, and stop() stays suspended on the task until the
\* loop finds _running false at its top.  One such task is followed at a time.
StopSwallowed ==
    /\ running
    /\ processor_task = "polling"
    /\ event_queue # << >>
    /\ orphan = NoLoop
    /\ awaited = "none"
    /\ running' = FALSE
    /\ everStopped' = TRUE
    /\ takeEvent(FALSE)
    /\ awaited' = IF processor_task' = "done" THEN "none" ELSE "main"
    /\ quiet' = (processor_task' = "done")
    /\ reply' = Reply("stop", "", "", IF processor_task' = "done" THEN "None" ELSE "suspended")
    /\ UNCHANGED <<subscribers, event_history, published, calls, raised, orphan, ctxVars, answer>>

\* the loop task without a reference: the same loop body on the same queue
OrphanProcessEvent ==
    /\ orphan.state = "polling"
    /\ event_queue # << >>
    /\ LET got == get(event_queue)
           event == got.item.event
           copied == copySubscribers(event.type)
           ends == (~got.ok \/ copied = << >>) /\ ~running
       IN  /\ event_queue' = got.heap
           /\ IF ~got.ok
              THEN /\ orphan' = IF running THEN orphan ELSE NoLoop
                   /\ UNCHANGED <<dequeued, offered, completed>>
              ELSE /\ dequeued' = Append(dequeued, event.id)
                   /\ offered' = [offered EXCEPT ![event.id] = Registered(event.type)]
                   /\ IF copied = << >>
                      THEN /\ completed' = completed \cup {event.id}
                           /\ orphan' = IF running THEN orphan ELSE NoLoop
                      ELSE /\ completed' = completed
                           /\ orphan' = [state |-> "gathering", current |-> event.id,
                                         handlers |-> copied,
                                         results |-> [i \in 1..Len(copied) |-> "pending"]]
           /\ awaited' = IF stopReturns("orphan", ends) THEN "none" ELSE awaited
           /\ quiet' = IF stopReturns("orphan", ends) THEN ~running ELSE quiet
    /\ UNCHANGED <<subscribers, running, processor_task, event_history, current,
                   handlers, results, published, calls, raised, everStopped, reply,
                   ctxVars, answer>>

OrphanCallHandler(i, outcome) ==
    /\ orphan.state = "gathering"
    /\ i \in 1..Len(orphan.results)
    /\ orphan.results[i] = "pending"
    /\ orphan' = [orphan EXCEPT !.results[i] = outcome]
    /\ calls' = [calls EXCEPT ![orphan.current][orphan.handlers[i]] = @ + 1]
    /\ raised' = IF outcome = "raised"
                 THEN [raised EXCEPT ![orphan.current] = @ \cup {orphan.handlers[i]}]
                 ELSE raised
    /\ UNCHANGED <<subscribers, event_queue, running, processor_task, event_history,
                   current, handlers, results, published, dequeued, offered,
                   completed, everStopped, awaited, quiet, reply, ctxVars, answer>>

OrphanGatherDone ==
    /\ orphan.state = "gathering"
    /\ \A i \in 1..Len(orphan.results) :
           orphan.results[i] \notin {"pending", "hung", "stopping"}
    /\ orphan' = IF running THEN [NoLoop EXCEPT !.state = "polling"] ELSE NoLoop
    /\ completed' = completed \cup {orphan.current}
    /\ awaited' = IF stopReturns("orphan", ~running) THEN "none" ELSE awaited
    /\ quiet' = IF stopReturns("orphan", ~running) THEN TRUE ELSE quiet
    /\ UNCHANGED <<subscribers, event_queue, running, processor_task, event_history,
                   current, handlers, results, published, dequeued, calls, raised,
                   offered, everStopped, reply, ctxVars, answer>>

\* wait_for times out on the empty queue and the loop finds _running false
OrphanTimeout ==
    /\ orphan.state = "polling"
    /\ event_queue = << >>
    /\ ~running
    /\ orphan' = NoLoop
    /\ awaited' = IF awaited = "orphan" THEN "none" ELSE awaited
    /\ quiet' = IF awaited = "orphan" THEN TRUE ELSE quiet
    /\ UNCHANGED <<subscribers, event_queue, running, processor_task, event_history,
                   current, handlers, results, published, dequeued, calls, raised,
                   offered, completed, everStopped, reply, ctxVars, answer>>

\* ------------------------------------------- a handler that stops the bus
\* the handler tasks after the cancel() of stop() called in task i: the cancel
\* of the loop task goes to the gather it awaits and from there to every
\* handler task that is not done.  A task that has not finished ends
\* cancelled; task i is the running task, it is marked for cancellation and
\* goes on into `await self._processor_task`
afterCancel(res, i) ==
    [j \in 1..Len(res) |->
        IF j = i THEN "stopping"
        ELSE IF res[j] \in {"pending", "hung"} THEN "cancelled" ELSE res[j]]

\* _call_handler in the i-th task for a coroutine handler that awaits
\* stop() of the running bus: stop() clears _running and cancels the loop
\* task, which awaits the gather of this very task.  At its await of the loop
\* task the handler task, marked for cancellation, passes the cancel on to the
\* loop task, that to the gather, that to the handler task, that to the loop
\* task it awaits, without end: the task step raises RecursionError into the
\* event loop's exception handler and leaves the handler task waiting for the
\* loop task and the loop task waiting for the gather.  One such stop() is
\* followed at a time.
HandlerStops(i) ==
    /\ running
    /\ processor_task = "gathering"
    /\ i \in 1..Len(results)
    /\ results[i] = "pending"
    /\ orphan = NoLoop
    /\ awaited = "none"
    /\ running' = FALSE
    /\ everStopped' = TRUE
    /\ results' = afterCancel(results, i)
    /\ calls' = [calls EXCEPT ![current][taskHandler(i)] = @ + 1]
    /\ awaited' = "main"
    /\ reply' = Reply("stop", "", "", "suspended")
    /\ UNCHANGED <<subscribers, event_queue, processor_task, event_history, current,
                   handlers, published, dequeued, raised, offered, completed, orphan,
                   quiet, ctxVars, answer>>

PublishStopper(type, data, priority) ==
    /\ Len(published) < MaxStopper
    /\ publish(type, data, priority)

\* ------------------------------------------- handlers that publish events
\* mutant of full: a queue of size one
fullAtOne(queue) == Len(queue) >= 1

\* Queue.full() of the PriorityQueue built without maxsize by __init__: never
\* full, so put() never suspends
full(queue) == FALSE

\* the event a handler publishes while it handles event `parent`
ChainEvent(parent) == Event(Len(published) + 1, ChainType, ChainData[parent], HIGH)

\* the publish() of a handler, but for the loop tasks: put, then the history
chainPublish(parent) ==
    LET event == ChainEvent(parent)
        r == put(event_queue, event)
    IN  /\ event_queue' = r.heap
        /\ event_history' = IF r.ok THEN appendHistory(event_history, event)
                            ELSE event_history
        /\ published' = Append(published, [event |-> event, ret |-> r.ok])
        /\ calls' = Append([calls EXCEPT ![parent][Chainer] = @ + 1], NoCalls)
        /\ raised' = Append(raised, {})
        /\ offered' = Append(offered, {})

\* _call_handler in the i-th task, for the handler that publishes: it is
\* invoked, awaits publish() and returns.  publish() starts a loop when the
\* bus is not running (the task the handler runs in then goes on without a
\* reference), and put() would suspend on a full queue.
ChainCall(i) ==
    /\ processor_task = "gathering"
    /\ i \in 1..Len(results)
    /\ results[i] = "pending"
    /\ taskHandler(i) = Chainer
    /\ current <= Len(ChainData)
    /\ ~running => orphan = NoLoop
    /\ ~full(event_queue)
    /\ chainPublish(current)
    /\ IF running
       THEN /\ results' = [results EXCEPT ![i] = "returned"]
            /\ UNCHANGED <<running, processor_task, current, handlers, orphan,
                           awaited, quiet>>
       ELSE /\ running' = TRUE
            /\ processor_task' = "polling"
            /\ current' = 0
            /\ handlers' = << >>
            /\ results' = << >>
            /\ quiet' = FALSE
            /\ orphan' = [state |-> "gathering", current |-> current,
                          handlers |-> handlers,
                          results |-> [results EXCEPT ![i] = "returned"]]
            /\ awaited' = IF awaited = "main" THEN "orphan" ELSE awaited
    /\ UNCHANGED <<subscribers, dequeued, completed, everStopped, reply, ctxVars, answer>>

\* the same in a handler task of the loop task without a reference, on a bus
\* that is running
OrphanChainCall(i) ==
    /\ orphan.state = "gathering"
    /\ i \in 1..Len(orphan.results)
    /\ orphan.results[i] = "pending"
    /\ orphan.handlers[i] = Chainer
    /\ orphan.current <= Len(ChainData)
    /\ running
    /\ ~full(event_queue)
    /\ chainPublish(orphan.current)
    /\ orphan' = [orphan EXCEPT !.results[i] = "returned"]
    /\ UNCHANGED <<subscribers, running, processor_task, current, handlers, results,
                   dequeued, completed, everStopped, awaited, quiet, reply, ctxVars, answer>>

\* _call_handler for a handler that publishes nothing and returns
CallPlain(i) ==
    /\ processor_task = "gathering"
    /\ i \in 1..Len(results)
    /\ taskHandler(i) # Chainer
    /\ CallHandler(i, "returned")

OrphanCallPlain(i) ==
    /\ orphan.state = "gathering"
    /\ i \in 1..Len(orphan.results)
    /\ orphan.handlers[i] # Chainer
    /\ OrphanCallHandler(i, "returned")

\* ------------------------------------------------------------------- Next
\* ========================================================= ContextManager
\* Strings that take part in key building are sequences of tokens; a uuid is
\* one token (uuid4 strings have a fixed length and hold no ':').  The empty
\* string stands for a session_id that is None or '': both are falsy.
SESSION == "session"
USER == "user"
GLOBAL == "global"
TASK == "task"
ContextScope == {SESSION, USER, GLOBAL, TASK}

NoSession == << >>

UuidTokens == <<"U1", "U2", "U3", "U4">>

\* str(uuid.uuid4()): the n-th id produced
uuid4(n) == <<UuidTokens[n]>>

Users == {"alice", "bob"}

\* the users sessions are created for in SpecSession
SessionUsers == {"alice"}
Values == {"v1", "v2"}

\* what the message dicts hold besides the timestamp
Contents == {"m1"}
Defaults == {"None"}

\* expires_in: {} is None, {d} is timedelta(d)
ExpiresIn == {{}, {0}, {1}}

\* the (key, scope, session_id) addressed by the calls of SpecExpiry
ExpiryAddresses ==
    {<< <<"k">>, TASK, NoSession >>, << <<"k">>, GLOBAL, uuid4(1) >>,
     << <<"k">>, SESSION, uuid4(1) >>}

\* the (key, scope, session_id) addressed by the calls of SpecSession
SessionAddresses ==
    {<< <<"k">>, SESSION, uuid4(1) >>, << <<"k">>, SESSION, uuid4(2) >>,
     << <<"U1", ":", "k">>, SESSION, NoSession >>, << <<"k">>, USER, uuid4(2) >>}

\* the session ids end_session is called with
SessionIds == {uuid4(1), uuid4(2)}

\* mutant of startswith: every key matches
startswithAlways(s, prefix) == TRUE

\* str.startswith
startswith(s, prefix) ==
    /\ Len(s) >= Len(prefix)
    /\ SubSeq(s, 1, Len(prefix)) = prefix

\* mutant of FullKey: the session id goes into the key in every scope
FullKeyEveryScope(key, scope, session_id) ==
    IF session_id # NoSession THEN session_id \o <<":">> \o key ELSE key

\* mutant of FullKey: the session id is left out of the key
FullKeyBare(key, scope, session_id) == key

\* full_key of set_context, get_context and remove_context
FullKey(key, scope, session_id) ==
    IF scope = SESSION /\ session_id # NoSession
    THEN session_id \o <<":">> \o key
    ELSE key

ContextEntry(key, value, scope, created_at, expires_at) ==
    [key |-> key, value |-> value, scope |-> scope, created_at |-> created_at,
     expires_at |-> expires_at, metadata |-> << >>]

\* mutant of is_expired: `>=` for `>`
is_expiredInclusive(entry, t) ==
    IF entry.expires_at = {} THEN FALSE
    ELSE \E e \in entry.expires_at : t >= e

\* ContextEntry.is_expired at clock reading t; expires_at {} is None
is_expired(entry, t) ==
    IF entry.expires_at = {} THEN FALSE
    ELSE \E e \in entry.expires_at : t > e

\* `if expires_in:` - None and timedelta(0) are falsy
truthy(expires_in) == expires_in # {} /\ expires_in # {0}

\* expires_at of set_context
expiresAt(expires_in, t) ==
    IF truthy(expires_in) THEN {t + d : d \in expires_in} ELSE {}

UserContext(user_id, t) ==
    [user_id |-> user_id, preferences |-> << >>, conversation_history |-> << >>,
     current_tasks |-> << >>, last_activity |-> t]

\* mutant of get_stats: entries that have expired are not counted
get_statsLive ==
    [active_sessions |-> Cardinality(DOMAIN sessions),
     user_contexts |-> Cardinality(DOMAIN user_contexts),
     context_counts |->
         [s \in ContextScope |->
             Cardinality({k \in DOMAIN contexts[s] : ~is_expired(contexts[s][k], now)})]]

\* get_stats()
get_stats ==
    [active_sessions |-> Cardinality(DOMAIN sessions),
     user_contexts |-> Cardinality(DOMAIN user_contexts),
     context_counts |-> [s \in ContextScope |-> Cardinality(DOMAIN contexts[s])]]

\* the record of a call in the log
Call(op, key, scope, sid, arg, ttl, ret, n) ==
    [op |-> op, key |-> key, scope |-> scope, sid |-> sid, arg |-> arg,
     ttl |-> ttl, ret |-> ret, n |-> n]

\* a call as a coroutine: its arguments, the statement it is at (pc), what it
\* holds in local variables, the manager as it was when the call took the
\* lock (pre), and what it returned; n tells two returns of the log apart
Coroutine(op, key, scope, sid, value, user, ttl) ==
    [op |-> op, key |-> key, scope |-> scope, sid |-> sid, value |-> value,
     user |-> user, ttl |-> ttl, pc |-> "acquire", local |-> {}, pre |-> << >>,
     ret |-> "", n |-> 0]

\* no call
NoTask == [Coroutine("none", << >>, "", NoSession, "", "", {}) EXCEPT !.pc = "done"]

\* the calls made in SpecTasks, each in flight at most once at a time; a
\* negative expires_in gives an entry that is expired from the start
TaskCalls ==
    <<Coroutine("create_session", << >>, "", NoSession, "", "alice", {}),
      Coroutine("end_session", << >>, "", uuid4(1), "", "", {}),
      Coroutine("set_context", <<"k">>, SESSION, uuid4(1), "v1", "", {}),
      Coroutine("set_context", <<"k">>, SESSION, uuid4(1), "v1", "", {-1}),
      Coroutine("get_context", <<"k">>, SESSION, uuid4(1), "None", "", {}),
      Coroutine("remove_context", <<"k">>, SESSION, uuid4(1), "", "", {}),
      Coroutine("update_user_preference", <<"p">>, "", NoSession, "v1", "alice", {}),
      Coroutine("add_to_conversation_history", << >>, "", NoSession, "m1", "alice", {}),
      Coroutine("cleanup_expired_contexts", << >>, "", NoSession, "", "", {})>>

\* one slot for each call
Slots == DOMAIN TaskCalls

CtxInit ==
    /\ contexts = [s \in ContextScope |-> << >>]
    /\ user_contexts = << >>
    /\ sessions = << >>
    /\ cleanup_task = "none"
    /\ sweepers = 0
    /\ now = 0
    /\ uuids = 0
    /\ sets = 0
    /\ last = Call("init", << >>, "", NoSession, "", {}, "", 0)
    /\ messages = << >>
    /\ appends = << >>
    /\ tasks = [slot \in Slots |-> NoTask]
    /\ lock = 0
    /\ thread = 0
    /\ finished = NoTask

\* mutant of hasTask: a task that is done counts as no task
hasTaskAlive == cleanup_task = "running"

\* mutant of hasTask: start() never finds a task
hasTaskNever == FALSE

\* `if self._cleanup_task is not None` of start(), `if self._cleanup_task` of
\* stop(): a Task object is truthy, done or not
hasTask == cleanup_task # "none"

\* the n of the log record of a start() or stop(): it tells a call from the
\* same call made just before it
again(op) == IF last.op = op THEN 1 - last.n ELSE 0

\* start(): returns early when a task reference exists, else creates the task
\* of _cleanup_loop
CtxStart ==
    /\ cleanup_task' = IF hasTask THEN cleanup_task ELSE "running"
    /\ sweepers' = IF hasTask THEN sweepers ELSE sweepers + 1
    /\ last' = Call("start", << >>, "", NoSession, "", {}, "None", again("start"))
    /\ UNCHANGED <<contexts, user_contexts, sessions, now, uuids, sets, busVars, convVars, taskVars>>

\* how a cancelled _cleanup_loop task ends: "cancelled" when the cancel reaches
\* it before its first step (CancelledError is thrown into a coroutine that has
\* not entered its try), "finished" when it reaches it in its sleep (the loop
\* catches CancelledError and breaks, the task returns None)
TaskEnds == {"cancelled", "finished"}

\* `await self._cleanup_task` of stop() inside try/except CancelledError: what
\* stop() returns, or the exception it lets through
awaitTask(task) ==
    CASE task = "cancelled" -> "None"
      [] task = "finished" -> "None"
      [] OTHER -> "suspended"

\* stop(): cancels the task when there is one and awaits it; the reference is
\* kept, and cancel() of a task that is done does nothing
CtxStop ==
    /\ \E end \in TaskEnds :
           /\ cleanup_task' = IF cleanup_task = "running" THEN end ELSE cleanup_task
           /\ last' = Call("stop", << >>, "", NoSession, "", {},
                           IF hasTask THEN awaitTask(cleanup_task') ELSE "None",
                           again("stop"))
    /\ sweepers' = IF cleanup_task = "running" THEN sweepers - 1 ELSE sweepers
    /\ UNCHANGED <<contexts, user_contexts, sessions, now, uuids, sets, busVars, convVars, taskVars>>

\* the tables of the manager as one value
Manager ==
    [contexts |-> contexts, user_contexts |-> user_contexts, sessions |-> sessions,
     uuids |-> uuids, messages |-> messages]

\* mutant of userContext: a new UserContext whether one exists or not
userContextNew(user_id, st) == UserContext(user_id, now)

\* the UserContext of a user in st, created when missing
userContext(user_id, st) ==
    IF user_id \in DOMAIN st.user_contexts
    THEN st.user_contexts[user_id] ELSE UserContext(user_id, now)

CreateSession(user_id) ==
    /\ uuids < MaxSessions
    /\ LET session_id == uuid4(uuids + 1)
           uc == userContext(user_id, Manager)
       IN  /\ uuids' = uuids + 1
           /\ sessions' = Put(sessions, session_id, user_id)
           /\ user_contexts' = Put(user_contexts, user_id,
                                   [uc EXCEPT !.last_activity = now])
           /\ last' = Call("create_session", << >>, "", session_id, user_id, {}, "", 0)
    /\ UNCHANGED <<contexts, cleanup_task, sweepers, now, sets, busVars, convVars, taskVars>>

\* the SESSION keys end_session deletes
sessionKeys(session_id) ==
    {key \in DOMAIN contexts[SESSION] : startswith(key, session_id \o <<":">>)}

EndSession(session_id) ==
    /\ IF session_id \in DOMAIN sessions
       THEN /\ sessions' = Drop(sessions, {session_id})
            /\ contexts' = [contexts EXCEPT
                               ![SESSION] = Drop(@, sessionKeys(session_id))]
            /\ last' = Call("end_session", << >>, "", session_id, "", {}, "",
                            Cardinality(sessionKeys(session_id)))
       ELSE /\ UNCHANGED <<sessions, contexts>>
            /\ last' = Call("end_session", << >>, "", session_id, "", {}, "", 0)
    /\ UNCHANGED <<user_contexts, cleanup_task, sweepers, now, uuids, sets, busVars, convVars, taskVars>>

\* metadata: {} is None, {d} is the dict d, a sequence of (name, value) pairs
Metadata == {{}, {<< >>}, {<< <<"src", "a">> >>}}

\* `metadata or {}`: None and the empty dict give an empty dict
metadataOr(metadata) ==
    IF metadata = {} \/ metadata = {<< >>} THEN << >> ELSE CHOOSE d \in metadata : TRUE

\* mutant of assigned: an entry written without expires_at keeps the
\* expires_at of the entry it replaces
assignedKeepingTtl(scope_contexts, full_key, entry) ==
    IF full_key \in DOMAIN scope_contexts /\ entry.expires_at = {}
    THEN Put(scope_contexts, full_key,
             [entry EXCEPT !.expires_at = scope_contexts[full_key].expires_at])
    ELSE Put(scope_contexts, full_key, entry)

\* the scope table after `self._contexts[scope.value][full_key] = entry`
assigned(scope_contexts, full_key, entry) == Put(scope_contexts, full_key, entry)

\* what set_context finds under full_key: 0 nothing, 1 a live entry, 2 an
\* entry that has expired and is still stored
found(scope_contexts, full_key) ==
    IF full_key \notin DOMAIN scope_contexts THEN 0
    ELSE IF is_expired(scope_contexts[full_key], now) THEN 2 ELSE 1

\* set_context with all its arguments; the log holds the metadata beside the
\* fields of Call, and as n what the call found under the key
SetContextWith(key, value, scope, session_id, expires_in, metadata) ==
    /\ sets < MaxSets
    /\ sets' = sets + 1
    /\ LET full_key == FullKey(key, scope, session_id)
           entry == [ContextEntry(full_key, value, scope, now, expiresAt(expires_in, now))
                        EXCEPT !.metadata = metadataOr(metadata)]
       IN  contexts' = [contexts EXCEPT ![scope] = assigned(@, full_key, entry)]
    /\ last' = [metadata |-> metadata]
                   @@ Call("set_context", key, scope, session_id, value, expires_in, "True",
                           found(contexts[scope], FullKey(key, scope, session_id)))
    /\ UNCHANGED <<user_contexts, sessions, cleanup_task, sweepers, now, uuids, busVars, convVars, taskVars>>

\* set_context called without metadata
SetContext(key, value, scope, session_id, expires_in) ==
    SetContextWith(key, value, scope, session_id, expires_in, {})

GetContext(key, scope, session_id, default) ==
    /\ LET full_key == FullKey(key, scope, session_id)
           scope_contexts == contexts[scope]
       IN  IF full_key \notin DOMAIN scope_contexts
           THEN /\ last' = Call("get_context", key, scope, session_id, default, {}, default, 0)
                /\ UNCHANGED contexts
           ELSE IF is_expired(scope_contexts[full_key], now)
           THEN /\ contexts' = [contexts EXCEPT ![scope] = Drop(@, {full_key})]
                /\ last' = Call("get_context", key, scope, session_id, default, {}, default, 1)
           ELSE /\ last' = Call("get_context", key, scope, session_id, default, {},
                                scope_contexts[full_key].value, 0)
                /\ UNCHANGED contexts
    /\ UNCHANGED <<user_contexts, sessions, cleanup_task, sweepers, now, uuids, sets, busVars, convVars, taskVars>>

\* mutant of removed: the table is emptied
removedAll(scope_contexts, full_key) == << >>

\* the scope table after `del scope_contexts[full_key]`
removed(scope_contexts, full_key) == Drop(scope_contexts, {full_key})

RemoveContext(key, scope, session_id) ==
    /\ LET full_key == FullKey(key, scope, session_id)
       IN  IF full_key \in DOMAIN contexts[scope]
           THEN /\ contexts' = [contexts EXCEPT ![scope] = removed(@, full_key)]
                /\ last' = Call("remove_context", key, scope, session_id, "", {}, "True", 1)
           ELSE /\ UNCHANGED contexts
                /\ last' = Call("remove_context", key, scope, session_id, "", {}, "False", 0)
    /\ UNCHANGED <<user_contexts, sessions, cleanup_task, sweepers, now, uuids, sets, busVars, convVars, taskVars>>

\* max_history of add_to_conversation_history
max_conversation == 1000

\* conversation_history[-max_history:] when the length has passed max_history
lastMessages(history) ==
    IF Len(history) > max_conversation
    THEN SubSeq(history, Len(history) - max_conversation + 1, Len(history))
    ELSE history

\* add_to_conversation_history(user_id, message): message is the caller's dict,
\* object m of the heap, new when m is the next free id; the call writes the
\* timestamp into that dict and appends the dict itself to the history
AddToConversationHistory(user_id, m, content) ==
    /\ m \in 1..Len(messages) + 1
    /\ m <= Len(messages) => messages[m].content = content
    /\ LET uc == userContext(user_id, Manager)
           message == [content |-> content, timestamp |-> now]
       IN  /\ messages' = IF m <= Len(messages)
                          THEN [messages EXCEPT ![m] = message]
                          ELSE Append(messages, message)
           /\ user_contexts' =
                  Put(user_contexts, user_id,
                      [uc EXCEPT !.conversation_history = lastMessages(Append(@, m)),
                                 !.last_activity = now])
    /\ appends' = Append(appends, [user_id |-> user_id, message |-> m, at |-> now])
    /\ last' = Call("add_to_conversation_history", << >>, "", NoSession, user_id, {}, "True", m)
    /\ UNCHANGED <<contexts, sessions, cleanup_task, sweepers, now, uuids, sets, busVars, taskVars>>

\* few calls, each with a new dict
AppendNew(user_id, content) ==
    /\ Len(appends) < MaxUserAppends
    /\ AddToConversationHistory(user_id, Len(messages) + 1, content)

\* mutant of upsert: the preferences are replaced by the one given
upsertAlone(preferences, preference_key, preference_value) ==
    Put(<< >>, preference_key, preference_value)

\* user_context.preferences[preference_key] = preference_value
upsert(preferences, preference_key, preference_value) ==
    Put(preferences, preference_key, preference_value)

\* update_user_preference; the log holds (user_id, preference_key) as key and
\* the value as arg
UpdateUserPreference(user_id, preference_key, preference_value) ==
    /\ LET uc == userContext(user_id, Manager)
       IN  user_contexts' =
               Put(user_contexts, user_id,
                   [uc EXCEPT !.preferences = upsert(@, preference_key, preference_value),
                              !.last_activity = now])
    /\ last' = Call("update_user_preference", <<user_id, preference_key>>, "",
                    NoSession, preference_value, {}, "True", 0)
    /\ UNCHANGED <<contexts, sessions, cleanup_task, sweepers, now, uuids, sets, busVars, convVars, taskVars>>

\* a long run of calls: the first MaxFreeAppends are free, the rest append a
\* new message for the same user
AppendRun(user_id, m, content) ==
    /\ Len(appends) < MaxAppends
    /\ Len(appends) >= MaxFreeAppends => (user_id = "alice" /\ m = Len(messages) + 1)
    /\ AddToConversationHistory(user_id, m, content)

\* mutant of expiredKeys: every entry that has an expires_at
expiredKeysWithTtl(scope) ==
    {key \in DOMAIN contexts[scope] : contexts[scope][key].expires_at # {}}

\* the keys of a scope table the sweep deletes
expiredKeys(scope) ==
    {key \in DOMAIN contexts[scope] : is_expired(contexts[scope][key], now)}

\* _cleanup_expired_contexts, run by the cleanup task after its sleep
CleanupExpired ==
    /\ cleanup_task = "running"
    /\ contexts' = [s \in ContextScope |-> Drop(contexts[s], expiredKeys(s))]
    /\ last' = Call("cleanup", << >>, "", NoSession, "", {}, "",
                    Cardinality(expiredKeys(SESSION)) + Cardinality(expiredKeys(USER))
                    + Cardinality(expiredKeys(GLOBAL)) + Cardinality(expiredKeys(TASK)))
    /\ UNCHANGED <<user_contexts, sessions, cleanup_task, sweepers, now, uuids, sets, busVars, convVars, taskVars>>

\* the tables in the order the sweep visits them (the insertion order of
\* the dict built by __init__)
scopeOrder == <<SESSION, USER, GLOBAL, TASK>>

\* the place of a scope in that order
scopeIndex(scope) == CHOOSE i \in 1..Len(scopeOrder) : scopeOrder[i] = scope

\* mutant of afterSweep: an exception of the sweep ends the loop task
afterSweepEnding(outcome) == IF outcome = "raised" THEN "finished" ELSE "running"

\* _cleanup_loop after one `await self._cleanup_expired_contexts()`: an
\* Exception is caught and logged, and `while True` goes on either way
afterSweep(outcome) == "running"

\* a sweep that raises when it comes to the table of scope `at`: the tables
\* before it are swept, `async with` releases the lock, the loop catches the
\* exception
CleanupRaises(at) ==
    /\ cleanup_task = "running"
    /\ contexts' = [s \in ContextScope |->
                       IF scopeIndex(s) < scopeIndex(at)
                       THEN Drop(contexts[s], expiredKeys(s)) ELSE contexts[s]]
    /\ cleanup_task' = afterSweep("raised")
    /\ sweepers' = IF cleanup_task' = "running" THEN sweepers ELSE sweepers - 1
    /\ last' = Call("cleanup", << >>, at, NoSession, "", {}, "raised", 0)
    /\ UNCHANGED <<user_contexts, sessions, now, uuids, sets, busVars, convVars, taskVars>>

\* time passes
Tick ==
    /\ now < MaxTime
    /\ now' = now + 1
    /\ UNCHANGED <<contexts, user_contexts, sessions, cleanup_task, sweepers, uuids, sets,
                   last, busVars, convVars, taskVars>>

\* ------------------------------------------- the calls as asyncio coroutines
\* Every public coroutine of the manager wraps its body in `async with
\* self._lock`; get_stats is a plain function and takes no lock.  The event
\* loop runs one coroutine at a time and switches only where the running one
\* suspends at an await.  Each body is given statement by statement.

\* the first statement of each body
firstPhase(op) ==
    CASE op = "create_session" -> "session"
      [] op = "end_session" -> "check"
      [] op = "set_context" -> "store"
      [] op = "get_context" -> "lookup"
      [] op = "remove_context" -> "check"
      [] op = "update_user_preference" -> "user"
      [] op = "add_to_conversation_history" -> "user"
      [] op = "cleanup_expired_contexts" -> SESSION

\* create_session: the id and the mapping, then the UserContext
create_session(task, st) ==
    IF task.pc = "session"
    THEN LET session_id == uuid4(st.uuids + 1)
         IN  [task |-> [task EXCEPT !.pc = "user", !.local = session_id],
              st |-> [st EXCEPT !.uuids = @ + 1,
                                !.sessions = Put(@, session_id, task.user)]]
    ELSE [task |-> [task EXCEPT !.pc = "done", !.ret = task.local],
          st |-> [st EXCEPT !.user_contexts =
                      Put(@, task.user,
                          [userContext(task.user, st) EXCEPT !.last_activity = now])]]

\* end_session: the mapping, then the list of keys, then the deletions
end_session(task, st) ==
    CASE task.pc = "check" ->
             IF task.sid \in DOMAIN st.sessions
             THEN [task |-> [task EXCEPT !.pc = "collect"],
                   st |-> [st EXCEPT !.sessions = Drop(@, {task.sid})]]
             ELSE [task |-> [task EXCEPT !.pc = "done", !.ret = "None"], st |-> st]
      [] task.pc = "collect" ->
             [task |-> [task EXCEPT
                           !.pc = "delete",
                           !.local = {key \in DOMAIN st.contexts[SESSION] :
                                         startswith(key, task.sid \o <<":">>)}],
              st |-> st]
      [] OTHER ->
             [task |-> [task EXCEPT !.pc = "done", !.ret = "None"],
              st |-> [st EXCEPT !.contexts[SESSION] = Drop(@, task.local)]]

set_context(task, st) ==
    LET full_key == FullKey(task.key, task.scope, task.sid)
        entry == ContextEntry(full_key, task.value, task.scope, now,
                              expiresAt(task.ttl, now))
    IN  [task |-> [task EXCEPT !.pc = "done", !.ret = "True"],
         st |-> [st EXCEPT !.contexts[task.scope] = Put(@, full_key, entry)]]

\* get_context: the lookup, then the expiry check with its deletion; value is
\* the default
get_context(task, st) ==
    LET full_key == FullKey(task.key, task.scope, task.sid)
    IN  IF task.pc = "lookup"
        THEN IF full_key \notin DOMAIN st.contexts[task.scope]
             THEN [task |-> [task EXCEPT !.pc = "done", !.ret = task.value], st |-> st]
             ELSE [task |-> [task EXCEPT !.pc = "expired",
                                         !.local = st.contexts[task.scope][full_key]],
                   st |-> st]
        ELSE IF is_expired(task.local, now)
             THEN [task |-> [task EXCEPT !.pc = "done", !.ret = task.value],
                   st |-> [st EXCEPT !.contexts[task.scope] = Drop(@, {full_key})]]
             ELSE [task |-> [task EXCEPT !.pc = "done", !.ret = task.local.value],
                   st |-> st]

\* remove_context: the membership test, then the deletion
remove_context(task, st) ==
    LET full_key == FullKey(task.key, task.scope, task.sid)
    IN  IF task.pc = "check"
        THEN IF full_key \in DOMAIN st.contexts[task.scope]
             THEN [task |-> [task EXCEPT !.pc = "delete"], st |-> st]
             ELSE [task |-> [task EXCEPT !.pc = "done", !.ret = "False"], st |-> st]
        ELSE [task |-> [task EXCEPT !.pc = "done", !.ret = "True"],
              st |-> [st EXCEPT !.contexts[task.scope] = Drop(@, {full_key})]]

\* update_user_preference: the UserContext, then the preference and the
\* activity stamp; key is the preference key
update_user_preference(task, st) ==
    IF task.pc = "user"
    THEN [task |-> [task EXCEPT !.pc = "store"],
          st |-> [st EXCEPT !.user_contexts =
                      Put(@, task.user, userContext(task.user, st))]]
    ELSE [task |-> [task EXCEPT !.pc = "done", !.ret = "True"],
          st |-> [st EXCEPT !.user_contexts[task.user] =
                      [@ EXCEPT !.preferences = Put(@, task.key, task.value),
                                !.last_activity = now]]]

\* add_to_conversation_history of a new dict: the UserContext, then the
\* stamp, the append, the cut and the activity stamp; value is the content
add_to_conversation_history(task, st) ==
    IF task.pc = "user"
    THEN [task |-> [task EXCEPT !.pc = "append"],
          st |-> [st EXCEPT !.user_contexts =
                      Put(@, task.user, userContext(task.user, st))]]
    ELSE LET m == Len(st.messages) + 1
         IN  [task |-> [task EXCEPT !.pc = "done", !.ret = "True"],
              st |-> [st EXCEPT
                         !.messages = Append(@, [content |-> task.value,
                                                 timestamp |-> now]),
                         !.user_contexts[task.user] =
                             [@ EXCEPT !.conversation_history =
                                           lastMessages(Append(@, m)),
                                       !.last_activity = now]]]

\* the scope tables in the order the sweep visits them (dict order)
nextScope(scope) ==
    CASE scope = SESSION -> USER
      [] scope = USER -> GLOBAL
      [] scope = GLOBAL -> TASK
      [] OTHER -> "done"

\* _cleanup_expired_contexts: one scope table per statement
cleanup_expired_contexts(task, st) ==
    LET scope == task.pc
        expired_keys == {key \in DOMAIN st.contexts[scope] :
                            is_expired(st.contexts[scope][key], now)}
    IN  [task |-> [task EXCEPT !.pc = nextScope(scope), !.ret = "None"],
         st |-> [st EXCEPT !.contexts[scope] = Drop(@, expired_keys)]]

\* the next statement of a call: [task, st]
phase(task, st) ==
    CASE task.op = "create_session" -> create_session(task, st)
      [] task.op = "end_session" -> end_session(task, st)
      [] task.op = "set_context" -> set_context(task, st)
      [] task.op = "get_context" -> get_context(task, st)
      [] task.op = "remove_context" -> remove_context(task, st)
      [] task.op = "update_user_preference" -> update_user_preference(task, st)
      [] task.op = "add_to_conversation_history" -> add_to_conversation_history(task, st)
      [] task.op = "cleanup_expired_contexts" -> cleanup_expired_contexts(task, st)

\* mutant of yields: the body gives up the event loop after every statement
yieldsAlways(op, pc) == TRUE

\* the coroutine suspends before the statement pc of its body: no body holds
\* an await besides the one that takes the lock
yields(op, pc) == FALSE

\* a call is in flight in the slot
pending(slot) == tasks[slot].op # "none"

\* the number of calls in flight
inFlight == Cardinality({slot \in Slots : pending(slot)})

\* the coroutine of a call is created and scheduled by code that has the event
\* loop (create_task, gather); the sweep is scheduled by the cleanup task
Schedule(slot) ==
    /\ thread = 0
    /\ ~pending(slot)
    /\ inFlight < MaxPending
    /\ TaskCalls[slot].op = "create_session" => uuids < MaxTaskSessions
    /\ TaskCalls[slot].op = "add_to_conversation_history" =>
           Len(messages) < MaxTaskAppends
    /\ TaskCalls[slot].op = "cleanup_expired_contexts" => cleanup_task = "running"
    /\ tasks' = [tasks EXCEPT ![slot] = TaskCalls[slot]]
    /\ UNCHANGED <<contexts, user_contexts, sessions, cleanup_task, sweepers, now,
                   uuids, sets, last, convVars, lock, thread, finished, busVars>>

\* `async with self._lock`: acquire() of a free lock returns without
\* suspending, acquire() of a held lock waits for its release
Acquire(slot) ==
    /\ pending(slot)
    /\ tasks[slot].pc = "acquire"
    /\ thread = 0
    /\ lock = 0
    /\ lock' = slot
    /\ thread' = slot
    /\ tasks' = [tasks EXCEPT ![slot] = [@ EXCEPT !.pc = firstPhase(tasks[slot].op),
                                                   !.pre = Manager]]
    /\ UNCHANGED <<contexts, user_contexts, sessions, cleanup_task, sweepers, now,
                   uuids, sets, last, convVars, finished, busVars>>

\* the coroutine in the slot runs its next statement; the last one releases
\* the lock and returns
Step(slot) ==
    /\ pending(slot)
    /\ tasks[slot].pc # "acquire"
    /\ thread \in {0, slot}
    /\ LET r == phase(tasks[slot], Manager)
       IN  /\ contexts' = r.st.contexts
           /\ user_contexts' = r.st.user_contexts
           /\ sessions' = r.st.sessions
           /\ uuids' = r.st.uuids
           /\ messages' = r.st.messages
           /\ IF r.task.pc = "done"
              THEN /\ tasks' = [tasks EXCEPT ![slot] = NoTask]
                   /\ finished' = [r.task EXCEPT !.n = 1 - finished.n, !.pre = << >>]
                   /\ lock' = 0
                   /\ thread' = 0
              ELSE /\ tasks' = [tasks EXCEPT ![slot] = r.task]
                   /\ finished' = finished
                   /\ lock' = lock
                   /\ thread' = IF yields(r.task.op, r.task.pc) THEN 0 ELSE slot
    /\ UNCHANGED <<cleanup_task, sweepers, now, sets, last, appends, busVars>>

\* get_stats(): a plain function, called by code that has the event loop
GetStats ==
    /\ thread = 0
    /\ finished' = [Coroutine("get_stats", << >>, "", NoSession, "", "", {}) EXCEPT
                       !.pc = "done", !.ret = get_stats, !.n = 1 - finished.n]
    /\ UNCHANGED <<contexts, user_contexts, sessions, cleanup_task, sweepers, now,
                   uuids, sets, last, convVars, tasks, lock, thread, busVars>>

\* start(), called by code that has the event loop
StartIdle == thread = 0 /\ CtxStart

\* concurrent calls of the manager
TasksNext ==
    \/ \E slot \in Slots : Schedule(slot)
    \/ \E slot \in Slots : Acquire(slot)
    \/ \E slot \in Slots : Step(slot)
    \/ GetStats
    \/ StartIdle

\* entries with and without a TTL, the clock and the sweep
ExpiryNext ==
    \/ CtxStart
    \/ \E a \in ExpiryAddresses, v \in Values, e \in ExpiresIn :
           SetContext(a[1], v, a[2], a[3], e)
    \/ \E a \in ExpiryAddresses, d \in Defaults : GetContext(a[1], a[2], a[3], d)
    \/ \E a \in ExpiryAddresses : RemoveContext(a[1], a[2], a[3])
    \/ CleanupExpired
    \/ Tick

\* the sweep over the four tables, with sessions and users beside them
SweepNext ==
    \/ CtxStart
    \/ \E u \in SessionUsers : CreateSession(u)
    \/ \E a \in ExpiryAddresses, v \in Values, e \in ExpiresIn :
           SetContext(a[1], v, a[2], a[3], e)
    \/ CleanupExpired
    \/ Tick

\* the (key, scope, session_id) addressed while the manager starts and stops
LifeAddresses == {<< <<"k">>, GLOBAL, NoSession >>, << <<"k">>, SESSION, uuid4(1) >>}

\* the manager started and stopped, beside sessions, entries and the sweep
CtxLifeNext ==
    \/ CtxStart
    \/ CtxStop
    \/ \E u \in SessionUsers : CreateSession(u)
    \/ \E a \in LifeAddresses, e \in ExpiresIn : SetContext(a[1], "v1", a[2], a[3], e)
    \/ CleanupExpired
    \/ Tick

\* the (type, data, priority) of the events published in SpecLoops: events
\* of one priority that are not equal
LoopInputs == {<<"t1", "d1", CRITICAL>>, <<"t1", "d2", CRITICAL>>}

\* the table at which the sweeps of SpecLoops raise
SweepFails == {GLOBAL}

\* the entry set in SpecLoops, expired when it is set, in a table the sweep
\* visits before the one at which it raises
LoopEntries == {<< <<"k">>, SESSION, uuid4(1), {-1} >>}

\* few set_context calls
SetLoops(key, value, scope, session_id, expires_in) ==
    /\ sets < MaxLoopSets
    /\ SetContext(key, value, scope, session_id, expires_in)

\* the two background loops: the dispatch loop with a get() and handlers that
\* raise, the cleanup loop with sweeps that raise, and the stop() of each
LoopsNext ==
    \/ Subscribe("t1", "h1")
    \/ \E e \in LoopInputs : PublishLoops(e[1], e[2], e[3])
    \/ ProcessEvent
    \/ \E i \in 1..Cardinality(Handlers) : CallHandler(i, "raised")
    \/ GatherDone
    \/ Stop
    \/ CtxStart
    \/ CtxStop
    \/ \E a \in LoopEntries : SetLoops(a[1], "v1", a[2], a[3], a[4])
    \/ CleanupExpired
    \/ \E at \in SweepFails : CleanupRaises(at)

\* a handler that publishes beside one that does not, and a stop() whose
\* cancel is lost
ChainNext ==
    \/ \E h \in Handlers : Subscribe("t1", h)
    \/ \E e \in ChainInputs : PublishChain(e[1], e[2], e[3])
    \/ ProcessEvent
    \/ \E i \in 1..Cardinality(Handlers) : ChainCall(i)
    \/ \E i \in 1..Cardinality(Handlers) : CallPlain(i)
    \/ GatherDone
    \/ StopSwallowed
    \/ OrphanProcessEvent
    \/ \E i \in 1..Cardinality(Handlers) : OrphanChainCall(i)
    \/ \E i \in 1..Cardinality(Handlers) : OrphanCallPlain(i)
    \/ OrphanGatherDone

\* a bus with two handlers stopped and started again while events are queued
\* and dispatched, with both ways a stop() can meet the loop
RestartNext ==
    \/ \E h \in Handlers : Subscribe("t1", h)
    \/ Start
    \/ Stop
    \/ StopSwallowed
    \/ \E e \in RestartInputs : PublishRestart(e[1], e[2], e[3])
    \/ ProcessEvent
    \/ \E i \in 1..Cardinality(Handlers) : CallHandler(i, "returned")
    \/ GatherDone
    \/ OrphanProcessEvent
    \/ \E i \in 1..Cardinality(Handlers) : OrphanCallHandler(i, "returned")
    \/ OrphanGatherDone
    \/ OrphanTimeout

\* events published and dispatched, and the history read
QueryNext ==
    \/ \E e \in QueryInputs : PublishQuery(e[1], e[2], e[3])
    \/ ProcessEvent
    \/ \E t \in QueryTypes, n \in QueryLimits : GetEventHistory(t, n)

\* the (preference_key, preference_value) of the update_user_preference calls
PrefInputs == {<<"p", "v1">>, <<"p", "v2">>, <<"q", "v1">>}

\* users, their sessions, preferences and histories, beside a session entry
UsersNext ==
    \/ \E u \in Users : CreateSession(u)
    \/ \E s \in SessionIds : EndSession(s)
    \/ \E u \in Users, i \in PrefInputs : UpdateUserPreference(u, i[1], i[2])
    \/ \E u \in Users, c \in Contents : AppendNew(u, c)
    \/ SetContext(<<"k">>, "v1", SESSION, uuid4(1), {})

\* sessions and their entries
SessionNext ==
    \/ \E u \in SessionUsers : CreateSession(u)
    \/ \E s \in SessionIds : EndSession(s)
    \/ \E a \in SessionAddresses, v \in Values : SetContext(a[1], v, a[2], a[3], {})
    \/ \E a \in SessionAddresses, d \in Defaults : GetContext(a[1], a[2], a[3], d)
    \/ \E a \in SessionAddresses : RemoveContext(a[1], a[2], a[3])

\* session ids create_session never returns: another uuid, and the id of the
\* first session followed by ":x"
NeverCreated == {<<"U9">>, <<"U1", ":", "x">>}

\* the session ids create_session has returned so far
Created == {uuid4(n) : n \in 1..uuids}

\* the session ids set_context is called with in SpecStale
StaleIds == SessionIds \cup NeverCreated

\* a session id that names no active session: ended, or never created
stale(session_id) ==
    /\ session_id \notin DOMAIN sessions
    /\ session_id \in Created \cup NeverCreated

\* set_context in scope SESSION with a session id that names no active session
SetStale(key, value, session_id) ==
    /\ stale(session_id)
    /\ SetContext(key, value, SESSION, session_id, {})

\* entries written under session ids that are not active
StaleNext ==
    \/ \E u \in SessionUsers : CreateSession(u)
    \/ \E s \in StaleIds : EndSession(s)
    \/ \E s \in StaleIds, v \in Values : SetStale(<<"k">>, v, s)
    \/ \E s \in StaleIds, d \in Defaults : GetContext(<<"k">>, SESSION, s, d)
    \/ \E s \in StaleIds : RemoveContext(<<"k">>, SESSION, s)

\* the (key, scope, session_id) written again and again in SpecOverwrite
OverwriteAddresses == {<< <<"k">>, GLOBAL, NoSession >>, << <<"k">>, SESSION, uuid4(1) >>}

\* entries written over entries, live or expired
OverwriteNext ==
    \/ CtxStart
    \/ \E a \in OverwriteAddresses, v \in Values, e \in ExpiresIn, m \in Metadata :
           SetContextWith(a[1], v, a[2], a[3], e, m)
    \/ \E a \in OverwriteAddresses, d \in Defaults : GetContext(a[1], a[2], a[3], d)
    \/ CleanupExpired
    \/ Tick

\* the scopes and session ids set_context is called with in SpecScopes, all
\* with key "k"
ScopeWrites == ContextScope \X {NoSession, uuid4(1)}

\* the scopes and session ids get_context and remove_context are called with
\* in SpecScopes: in USER, GLOBAL and TASK never the session id of a write
ScopeReads ==
    ({USER, GLOBAL, TASK} \X {uuid4(2)}) \cup ({SESSION} \X {NoSession, uuid4(1), uuid4(2)})

\* one key in the four scopes, with and without session ids
ScopesNext ==
    \/ \E a \in ScopeWrites, v \in Values : SetContext(<<"k">>, v, a[1], a[2], {})
    \/ \E a \in ScopeReads, d \in Defaults : GetContext(<<"k">>, a[1], a[2], d)
    \/ \E a \in ScopeReads : RemoveContext(<<"k">>, a[1], a[2])

\* the (key, scope, session_id, expires_in) of the set_context calls of
\* SpecStats: a GLOBAL entry with a TTL and a SESSION entry without
StatsWrites ==
    {<< <<"k">>, GLOBAL, NoSession, {1} >>, << <<"k">>, SESSION, uuid4(1), {} >>}

\* few set_context calls
SetStats(key, value, scope, session_id, expires_in) ==
    /\ sets < MaxStatsSets
    /\ SetContext(key, value, scope, session_id, expires_in)

\* get_stats() called between the calls of a sequential caller: the log holds
\* the dict it returns
GetStatsCall ==
    /\ last' = [stats |-> get_stats]
                   @@ Call("get_stats", << >>, "", NoSession, "", {}, "", again("get_stats"))
    /\ UNCHANGED <<contexts, user_contexts, sessions, cleanup_task, sweepers, now,
                   uuids, sets, busVars, convVars, taskVars>>

\* sessions, users and entries with get_stats() between the calls
StatsNext ==
    \/ CtxStart
    \/ \E u \in Users : CreateSession(u)
    \/ \E s \in SessionIds : EndSession(s)
    \/ \E a \in StatsWrites : SetStats(a[1], "v1", a[2], a[3], a[4])
    \/ \E a \in StatsWrites, d \in Defaults : GetContext(a[1], a[2], a[3], d)
    \/ \E a \in StatsWrites : RemoveContext(a[1], a[2], a[3])
    \/ CleanupExpired
    \/ Tick
    \/ GetStatsCall

\* expires_in of the set_context calls of SpecStopped
StoppedTtls == {{}, {1}}

\* the manager started, stopped and started again, beside entries that expire
StoppedNext ==
    \/ CtxStart
    \/ CtxStop
    \/ \E u \in SessionUsers : CreateSession(u)
    \/ \E s \in SessionIds : EndSession(s)
    \/ \E a \in LifeAddresses, e \in StoppedTtls : SetContext(a[1], "v1", a[2], a[3], e)
    \/ \E a \in LifeAddresses, d \in Defaults : GetContext(a[1], a[2], a[3], d)
    \/ \E a \in LifeAddresses : RemoveContext(a[1], a[2], a[3])
    \/ CleanupExpired
    \/ Tick

\* time passes between the first calls of SpecConv
TickEarly ==
    /\ Len(appends) < MaxFreeAppends
    /\ Tick

\* conversation histories
ConvNext ==
    \/ \E u \in Users, m \in 1..Len(messages) + 1, c \in Contents : AppendRun(u, m, c)
    \/ TickEarly

\* producers, subscribers and the loop on a bus that is never stopped
BusNext ==
    \/ \E s \in Subscriptions : Subscribe(s[1], s[2])
    \/ \E s \in Subscriptions : Unsubscribe(s[1], s[2])
    \/ \E e \in PublishInputs : Publish(e[1], e[2], e[3])
    \/ ProcessEvent
    \/ \E i \in 1..Cardinality(Handlers), o \in {"returned", "raised"} : CallHandler(i, o)
    \/ GatherDone

\* the whole API, with few events
FanoutNext ==
    \/ Start
    \/ Stop
    \/ \E s \in Subscriptions : Subscribe(s[1], s[2])
    \/ \E s \in Subscriptions : Unsubscribe(s[1], s[2])
    \/ \E e \in FanInputs : PublishFan(e[1], e[2], e[3])
    \/ ProcessEvent
    \/ \E i \in 1..Cardinality(Handlers), o \in {"returned", "raised"} : CallHandler(i, o)
    \/ GatherDone

\* a burst of events taken from the queue one by one, no handler registered
QueueNext ==
    \/ \E e \in BurstInputs : PublishBurst(e[1], e[2], e[3])
    \/ ProcessEvent

\* the dispatch loop at work while the first events of SpecHistory come in
ProcessEarly ==
    /\ Len(published) <= MaxMix
    /\ ProcessEvent

\* a long run of publish calls, no handler registered
HistoryNext ==
    \/ \E e \in HistoryInputs : PublishHistory(e[1], e[2], e[3])
    \/ ProcessEarly

\* subscribe and unsubscribe calls, logged, around the dispatch of few events
SubsNext ==
    \/ \E s \in SubPairs : SubscribeCall(s[1], s[2])
    \/ \E s \in SubPairs : UnsubscribeCall(s[1], s[2])
    \/ \E e \in SubInputs : PublishSub(e[1], e[2], e[3])
    \/ ProcessEvent
    \/ \E i \in 1..Cardinality(Handlers) : CallHandler(i, "returned")
    \/ GatherDone

\* start, stop and publish in any order, the loop task and a task that
\* outlived its cancel
LifeNext ==
    \/ \E s \in {<<"t1", "h1">>} : SubscribeCall(s[1], s[2])
    \/ StartCall
    \/ StopCall
    \/ StopSwallowed
    \/ \E e \in LifeInputs : PublishLife(e[1], e[2], e[3])
    \/ ProcessEvent
    \/ \E i \in 1..Cardinality(Handlers) : CallHandler(i, "returned")
    \/ GatherDone
    \/ OrphanProcessEvent
    \/ \E i \in 1..Cardinality(Handlers) : OrphanCallHandler(i, "returned")
    \/ OrphanGatherDone
    \/ OrphanTimeout

\* the types get_subscriber_count is called with; no one subscribes to "t3"
CountTypes == {"t1", "t2", "t3"}

\* the subscriber table and the calls that read it
TypesNext ==
    \/ \E s \in SubPairs : SubscribeCall(s[1], s[2])
    \/ \E s \in SubPairs : UnsubscribeCall(s[1], s[2])
    \/ \E t \in CountTypes : GetSubscriberCount(t)
    \/ GetAllEventTypes

\* handlers that return and handlers that stop the bus they are called by
HandlerStopNext ==
    \/ \E h \in Handlers : Subscribe("t1", h)
    \/ \E e \in LifeInputs : PublishStopper(e[1], e[2], e[3])
    \/ ProcessEvent
    \/ \E i \in 1..Cardinality(Handlers) : CallHandler(i, "returned")
    \/ \E i \in 1..Cardinality(Handlers) : HandlerStops(i)
    \/ GatherDone

\* handlers that return and handlers that never do, on a bus that is not
\* stopped; nothing runs while a handler holds the thread
HangNext ==
    \/ runnable /\ \E s \in Subscriptions : Subscribe(s[1], s[2])
    \/ runnable /\ \E e \in LifeInputs : PublishHang(e[1], e[2], e[3])
    \/ runnable /\ ProcessEvent
    \/ runnable /\ \E i \in 1..Cardinality(Handlers), o \in Outcomes \ {"raised"} :
                       CallHandler(i, o)
    \/ runnable /\ GatherDone

Init == BusInit /\ CtxInit

Next == FanoutNext

Spec == Init /\ [][Next]_vars

SpecBus == Init /\ [][BusNext]_vars

SpecFanout == Init /\ [][FanoutNext]_vars

SpecQueue == Init /\ [][QueueNext]_vars

SpecSubs == Init /\ [][SubsNext]_vars

SpecLife == Init /\ [][LifeNext]_vars

SpecHang == Init /\ [][HangNext]_vars

SpecHistory == Init /\ [][HistoryNext]_vars

SpecConv == Init /\ [][ConvNext]_vars

SpecExpiry == Init /\ [][ExpiryNext]_vars

SpecSession == Init /\ [][SessionNext]_vars

SpecStale == Init /\ [][StaleNext]_vars

SpecOverwrite == Init /\ [][OverwriteNext]_vars

SpecScopes == Init /\ [][ScopesNext]_vars

SpecStats == Init /\ [][StatsNext]_vars

SpecStopped == Init /\ [][StoppedNext]_vars

SpecTypes == Init /\ [][TypesNext]_vars

\* the event loop runs every task that is ready: the dispatch loop takes an
\* event that is queued, a handler task that was created runs, and the loop
\* goes on when the gather has every result
SpecHandlerStop ==
    /\ Init /\ [][HandlerStopNext]_vars
    /\ WF_vars(ProcessEvent)
    /\ WF_vars(\E i \in 1..Cardinality(Handlers) :
                   CallHandler(i, "returned") \/ HandlerStops(i))
    /\ WF_vars(GatherDone)

SpecTasks == Init /\ [][TasksNext]_vars

SpecSweep == Init /\ [][SweepNext]_vars

SpecUsers == Init /\ [][UsersNext]_vars

SpecCtxLife == Init /\ [][CtxLifeNext]_vars

SpecLoops == Init /\ [][LoopsNext]_vars

SpecQuery == Init /\ [][QueryNext]_vars

SpecChain == Init /\ [][ChainNext]_vars

SpecRestart == Init /\ [][RestartNext]_vars

\* ----------------------------------------------------------------- claims
InQueue(id) == \E i \in 1..Len(event_queue) : event_queue[i].event.id = id

GatherComplete ==
    /\ processor_task = "gathering"
    /\ \A i \in 1..Len(results) : results[i] # "pending"

\* the step is one in which the dispatch loop took an event from the queue
Dequeues == Len(dequeued') = Len(dequeued) + 1

\* C1: whenever the dispatch loop dequeues an event, no event still in the
\* queue has a strictly lower priority value than the dequeued one.
C1_PriorityOrderAtDequeue ==
    [][Dequeues =>
         \A i \in 1..Len(event_queue') :
             event_queue'[i].priority >= EventOf(dequeued'[Len(dequeued')]).priority]_vars

\* C2: whenever the dispatch loop dequeues an event, no accepted event of the
\* same priority that was published before it is still in the queue (FIFO
\* within a priority, whatever the events' contents).
C2_FifoWithinPriority ==
    [][Dequeues =>
         LET e == EventOf(dequeued'[Len(dequeued')])
         IN  published[e.id].ret =>
                 \A i \in 1..Len(event_queue') :
                     LET q == event_queue'[i].event
                     IN  ~(q.priority = e.priority /\ q.id < e.id /\ published[q.id].ret)]_vars

\* C3: no handler is invoked twice for an event, and once the distribution of
\* an event has run to its end each handler registered for its type when it
\* was dequeued has been invoked exactly once with it, and no other handler.
C3_FanOutExactlyOnce ==
    /\ \A id \in 1..Len(published) : \A h \in Handlers : calls[id][h] <= 1
    /\ \A id \in 1..Len(published) :
           (id \in completed \/ (id = current /\ GatherComplete)) =>
               \A h \in Handlers :
                   calls[id][h] = IF h \in offered[id] THEN 1 ELSE 0

\* C3 witness: an event was distributed to two handlers, each invoked once
C3_Witness ==
    \E id \in completed :
        /\ offered[id] = Handlers
        /\ \A h \in Handlers : calls[id][h] = 1

\* C4: on a bus that is never stopped no accepted event is lost: an event for
\* which publish returned true is in the queue until the loop dequeues it.
C4_NoAcceptedEventLost ==
    \A id \in 1..Len(published) :
        published[id].ret => (InQueue(id) \/ id \in Range(dequeued))

\* C5: when a handler of an event has raised, every handler registered for the
\* event has still been invoked once all handler tasks are through, no publish
\* result changes, and the loop returns to the queue, alive, for the next event.
C5_HandlerIsolation ==
    [][(GatherComplete /\ \E i \in 1..Len(results) : results[i] = "raised") =>
          /\ \A h \in offered[current] : calls[current][h] = 1
          /\ (current' = 0 /\ running') =>
                 /\ processor_task' = "polling"
                 /\ event_queue' = event_queue
                 /\ published' = published
                 /\ current \in completed']_vars

\* C5 witness: a handler raised for an event, its sibling was invoked for the
\* same event, and the loop then dispatched a later event to a handler
C5_Witness ==
    \E i, j \in 1..Len(dequeued) :
        /\ i < j
        /\ raised[dequeued[i]] # {}
        /\ \E h \in offered[dequeued[i]] \ raised[dequeued[i]] :
               calls[dequeued[i]][h] = 1
        /\ \E h \in Handlers : calls[dequeued[j]][h] = 1

\* C6: an event for which publish returned false is not in the queue, not in
\* the history and is never taken from the queue nor delivered; an event for
\* which it returned true was appended to the history.
C6_PublishResult ==
    \A id \in 1..Len(published) :
        IF published[id].ret
        THEN published[id].event \in Range(event_history)
        ELSE /\ ~InQueue(id)
             /\ published[id].event \notin Range(event_history)
             /\ id \notin Range(dequeued)
             /\ \A h \in Handlers : calls[id][h] = 0

\* the step is a get_context call (every call writes the log, only Tick moves
\* the clock)
GetStep == last'.op = "get_context" /\ now' = now

SetStep == last'.op = "set_context" /\ sets' = sets + 1

EndStep == last'.op = "end_session" /\ now' = now

\* the key a call is expected to address: "<session_id>:<key>" for SESSION
\* scope with a session id, the key itself otherwise
EffectiveKey(key, scope, sid) ==
    IF scope = SESSION /\ sid # NoSession THEN sid \o <<":">> \o key ELSE key

\* an entry that has no expires_at, or whose expires_at is not yet passed
Live(entry, t) == \A e \in entry.expires_at : t <= e

\* C7: set_context(k, v, TASK, expires_in=0) followed by get_context(k, TASK)
\* as the next call (at a later clock reading) returns the default and leaves
\* no entry for k to be counted in the TASK count of get_stats().
C7_ZeroTtlExpiresAtOnce ==
    [][(/\ last.op = "set_context" /\ last.scope = TASK /\ last.ttl = {0}
        /\ GetStep /\ last'.scope = TASK /\ last'.key = last.key
        /\ last.key \in DOMAIN contexts[TASK]
        /\ now > contexts[TASK][last.key].created_at)
       => /\ last'.ret = last'.arg
          /\ last.key \notin DOMAIN contexts'[TASK]
          /\ get_stats'.context_counts[TASK] = get_stats.context_counts[TASK] - 1]_vars

\* C8: get_context returns the stored value exactly when an entry exists under
\* the effective key and is not expired (no expires_at, or now <= expires_at);
\* otherwise it returns the default, and an entry found expired is deleted from
\* its scope table by that call, which changes nothing else.
C8_GetContext ==
    [][GetStep =>
         LET fk == EffectiveKey(last'.key, last'.scope, last'.sid)
             tbl == contexts[last'.scope]
             present == fk \in DOMAIN tbl
             live == present /\ Live(tbl[fk], now)
         IN  /\ last'.ret = IF live THEN tbl[fk].value ELSE last'.arg
             /\ contexts' = IF present /\ ~live
                            THEN [contexts EXCEPT
                                     ![last'.scope] = [k \in DOMAIN tbl \ {fk} |-> tbl[k]]]
                            ELSE contexts
             /\ UNCHANGED <<sessions, user_contexts>>]_vars

\* C8 witness: a get_context found an expired entry, deleted it and returned
\* the default
C8_Witness ==
    /\ last.op = "get_context"
    /\ last.n = 1
    /\ last.ret = last.arg
    /\ EffectiveKey(last.key, last.scope, last.sid) \notin DOMAIN contexts[last.scope]

\* what session sid reads under key: the value, or "absent"
View(key, sid) ==
    LET fk == sid \o <<":">> \o key
    IN  IF fk \in DOMAIN contexts[SESSION] /\ Live(contexts[SESSION][fk], now)
        THEN contexts[SESSION][fk].value ELSE "absent"

CtxKeys == {a[1] : a \in SessionAddresses}

\* C9: for distinct sessions s1 and s2, a SESSION-scoped set_context of s1
\* stores the value s1 then reads and leaves what s2 reads under every key
\* unchanged; a get_context of s1 returns what s1 stored; end_session(s1)
\* leaves what s2 reads unchanged.
C9_SessionIsolation ==
    [][\A s1, s2 \in SessionIds :
         (s1 # s2 /\ last'.sid = s1) =>
             /\ (SetStep /\ last'.scope = SESSION) =>
                    /\ \E k \in CtxKeys : k = last'.key /\ View(k, s1)' = last'.arg
                    /\ \A k \in CtxKeys : View(k, s2)' = View(k, s2)
             /\ (GetStep /\ last'.scope = SESSION) =>
                    /\ last'.ret = IF View(last'.key, s1) = "absent"
                                   THEN last'.arg ELSE View(last'.key, s1)
                    /\ \A k \in CtxKeys : View(k, s2)' = View(k, s2)
             /\ EndStep => \A k \in CtxKeys : View(k, s2)' = View(k, s2)]_vars

\* C9 witness: two sessions hold different values under the same key, and
\* ending the first has deleted its entry and left the second's
C9_Witness ==
    /\ last.op = "end_session"
    /\ last.sid = uuid4(1)
    /\ last.n >= 1
    /\ uuid4(2) \in DOMAIN sessions
    /\ View(<<"k">>, uuid4(2)) \in Values
    /\ View(<<"k">>, uuid4(1)) = "absent"

\* the key lies in the namespace of session sid: it reads "<sid>:..."
Namespaced(key, sid) ==
    /\ Len(key) > Len(sid)
    /\ \A i \in 1..Len(sid) : key[i] = sid[i]
    /\ key[Len(sid) + 1] = ":"

\* C10: end_session(s) of an active session removes s from the session mapping
\* and deletes the SESSION entries whose key is namespaced under s, and nothing
\* else; end_session of an id that is no active session changes nothing.
C10_EndSessionFrame ==
    [][EndStep =>
         LET s == last'.sid
             kept == {k \in DOMAIN contexts[SESSION] : ~Namespaced(k, s)}
         IN  IF s \in DOMAIN sessions
             THEN /\ sessions' = [t \in DOMAIN sessions \ {s} |-> sessions[t]]
                  /\ contexts' = [contexts EXCEPT
                                     ![SESSION] = [k \in kept |-> contexts[SESSION][k]]]
                  /\ user_contexts' = user_contexts
             ELSE UNCHANGED <<sessions, contexts, user_contexts>>]_vars

\* C10 witness: an end_session deleted an entry and another SESSION entry stays
C10_Witness ==
    /\ last.op = "end_session"
    /\ last.n >= 1
    /\ last.sid \notin DOMAIN sessions
    /\ DOMAIN contexts[SESSION] # {}

\* C11: when session s has just stored value v under key k with SESSION scope
\* and no other SESSION entry holds v, a SESSION get_context called with a
\* different session id, or with none, does not return v, whatever its key.
C11_OwnerOnly ==
    [][\A s \in SessionIds, k \in CtxKeys :
         (/\ last.op = "set_context" /\ last.scope = SESSION
          /\ last.sid = s /\ last.key = k
          /\ (s \o <<":">> \o k) \in DOMAIN contexts[SESSION]
          /\ \A f \in DOMAIN contexts[SESSION] \ {s \o <<":">> \o k} :
                 contexts[SESSION][f].value # last.arg
          /\ GetStep /\ last'.scope = SESSION /\ last'.sid # s)
         => last'.ret # last.arg]_vars

\* what a caller reads at the address (key, scope, session id): the value
\* stored under the effective key, or "absent"
Stored(key, scope, sid) ==
    LET fk == EffectiveKey(key, scope, sid)
    IN  IF fk \in DOMAIN contexts[scope] THEN contexts[scope][fk].value ELSE "absent"

\* the step is a set_context or remove_context of that key in that scope (and
\* that session, for SESSION scope), or the end_session of that session
Touches(key, scope, sid) ==
    \/ /\ last'.op \in {"set_context", "remove_context"}
       /\ last'.key = key
       /\ last'.scope = scope
       /\ scope = SESSION => last'.sid = sid
    \/ /\ last'.op = "end_session"
       /\ scope = SESSION
       /\ last'.sid = sid

\* C12: set_context(k, v, scope) without TTL returns true and stores v at its
\* address; get_context at that address returns the stored value; and the
\* value stays until a set_context, remove_context or end_session touches the
\* key, so the last write is the one read.
C12_SetThenGet ==
    [][\A a \in SessionAddresses :
         /\ (SetStep /\ last'.key = a[1] /\ last'.scope = a[2] /\ last'.sid = a[3]
             /\ last'.ttl = {})
            => (last'.ret = "True" /\ Stored(a[1], a[2], a[3])' = last'.arg)
         /\ (GetStep /\ last'.key = a[1] /\ last'.scope = a[2] /\ last'.sid = a[3]
             /\ Stored(a[1], a[2], a[3]) # "absent")
            => last'.ret = Stored(a[1], a[2], a[3])
         /\ (Stored(a[1], a[2], a[3]) # "absent" /\ ~Touches(a[1], a[2], a[3]))
            => Stored(a[1], a[2], a[3])' = Stored(a[1], a[2], a[3])]_vars

Accepted(p) == p.ret

\* the events for which publish returned true, in publish order
AcceptedEvents ==
    LET acc == SelectSeq(published, Accepted)
    IN  [i \in 1..Len(acc) |-> acc[i].event]

ApiStep(op) == reply'.op = op /\ reply' # reply

\* the handler list of a type, empty when the type has no entry
HandlersOf(table, type) == IF type \in DOMAIN table THEN table[type] ELSE << >>

NoDuplicates(list) == Cardinality(Range(list)) = Len(list)

\* C14: subscribe(t, h) returns true exactly when h is not registered for t,
\* and then registers it; a repeat returns false and leaves the table as it is;
\* no handler list holds a handler twice, and once an event's distribution has
\* run to its end every handler registered for it was invoked exactly once.
C14_SubscribeOnce ==
    /\ [][ApiStep("subscribe") =>
            LET t == reply'.type
                h == reply'.handler
            IN  IF h \in Registered(t)
                THEN reply'.ret = "False" /\ subscribers' = subscribers
                ELSE /\ reply'.ret = "True"
                     /\ subscribers' = Put(subscribers, t, Append(HandlersOf(subscribers, t), h))]_vars
    /\ [](\A t \in DOMAIN subscribers : NoDuplicates(subscribers[t]))
    /\ [](\A id \in completed : \A h \in offered[id] : calls[id][h] = 1)

\* C14 witness: a repeated subscribe returned false, and an event of that type
\* dispatched afterwards reached the handler once
C14_Witness ==
    /\ reply.op = "subscribe"
    /\ reply.ret = "False"
    /\ dequeued # << >>
    /\ LET id == dequeued[Len(dequeued)]
       IN  /\ id \in completed
           /\ EventOf(id).type = reply.type
           /\ calls[id][reply.handler] = 1

\* the list without its element x, order kept
Without(list, x) ==
    LET keep(y) == y # x
    IN  SelectSeq(list, keep)

\* C16: unsubscribe(t, h) returns true and takes h out of the handlers of t
\* exactly when h is registered for t, leaving the other handlers of t and the
\* lists of the other types as they are; otherwise it returns false and
\* changes nothing.  An event is handed only to handlers registered for its
\* type when the loop dequeues it, so h gets no event of type t dequeued after
\* a true return until it is subscribed again.
C16_Unsubscribe ==
    /\ [][ApiStep("unsubscribe") =>
            LET t == reply'.type
                h == reply'.handler
            IN  IF h \in Registered(t)
                THEN /\ reply'.ret = "True"
                     /\ subscribers' = [subscribers EXCEPT ![t] = Without(subscribers[t], h)]
                ELSE reply'.ret = "False" /\ subscribers' = subscribers]_vars
    /\ [][Dequeues =>
            LET id == dequeued'[Len(dequeued')]
            IN  /\ Range(handlers') \subseteq Registered(EventOf(id).type)
                /\ offered'[id] = Registered(EventOf(id).type)]_vars
    /\ [](\A id \in 1..Len(published) : \A h \in Handlers :
              calls[id][h] > 0 => h \in offered[id])

\* C16 witness: h was unsubscribed from a type with success, its sibling and
\* its registration under another type stay, and the last event of the type
\* went to the sibling and not to h
C16_Witness ==
    /\ reply.op = "unsubscribe"
    /\ reply.ret = "True"
    /\ Registered(reply.type) # {}
    /\ \E t \in EventTypes \ {reply.type} : reply.handler \in Registered(t)
    /\ dequeued # << >>
    /\ LET id == dequeued[Len(dequeued)]
       IN  /\ id \in completed
           /\ EventOf(id).type = reply.type
           /\ calls[id][reply.handler] = 0
           /\ \E h \in Handlers : calls[id][h] = 1

\* C19: the handlers of an event are those registered for its type in the step
\* in which the loop takes the event; subscribe and unsubscribe calls made
\* while its handler tasks run change the table but not the handlers of that
\* event, each of which is invoked once; the event dispatched next gets the
\* table as it then is.
C19_Snapshot ==
    /\ [][Dequeues =>
            handlers' = HandlersOf(subscribers, EventOf(dequeued'[Len(dequeued')]).type)]_vars
    /\ [][(processor_task = "gathering" /\ current' = current) => handlers' = handlers]_vars
    /\ [][(processor_task = "gathering" /\ current' # current) =>
            \A h \in Handlers :
                calls[current][h] = IF h \in Range(handlers) THEN 1 ELSE 0]_vars

\* C19 witness: while the handler tasks of an event run, one invoked already,
\* the table of its type has come to differ from the handlers of the event
C19_Witness ==
    /\ processor_task = "gathering"
    /\ \E i \in 1..Len(results) : results[i] # "pending"
    /\ \E i \in 1..Len(results) : results[i] = "pending"
    /\ reply.op \in {"subscribe", "unsubscribe"}
    /\ reply.ret = "True"
    /\ Range(handlers) # Registered(EventOf(current).type)

\* the state of the bus proper: everything but the logs
busState == <<subscribers, event_queue, running, processor_task, event_history,
              current, handlers, results, orphan>>

\* the step is a publish call
PublishStep == Len(published') = Len(published) + 1

\* C17: there is never more than one loop task that is not done; start() on a
\* running bus changes nothing; publish() on a bus that is not running leaves
\* it running with a fresh loop task.
C17_OneLoop ==
    /\ [](~(alive /\ orphan.state # "none"))
    /\ [][(ApiStep("start") /\ running) => UNCHANGED busState]_vars
    /\ [][(PublishStep /\ ~running) => (running' /\ processor_task' = "polling")]_vars

\* C18: when a stop() of the running bus has returned, the loop task is done,
\* and no handler is invoked until start() or publish() starts a loop again;
\* stop() on a bus that is not running changes nothing.
C18_StopQuiesces ==
    /\ [](quiet => ~alive)
    /\ [][(quiet /\ quiet') => calls' = calls]_vars
    /\ [][(ApiStep("stop") /\ ~running) => UNCHANGED busState]_vars

\* a handler of the current event has been invoked and never returns
NeverReturns == \E i \in 1..Len(results) : results[i] \in {"hung", "blocked"}

\* C20: the loop takes the next event only when every handler of the events
\* taken before has finished; while a handler of the current event never
\* returns, each sibling not yet invoked can still be invoked, and no later
\* event is taken from the queue.
C20_BatchBarrier ==
    /\ [][Dequeues => \A id \in Range(dequeued) : id \in completed]_vars
    /\ [](NeverReturns =>
            \A j \in 1..Len(results) :
                results[j] = "pending" => ENABLED (runnable /\ CallHandler(j, "returned")))
    /\ [][NeverReturns => dequeued' = dequeued]_vars

\* C20 for handlers that never return by waiting at an await: the part of
\* C20 the loop keeps
C20_AwaitingOnly ==
    /\ [][Dequeues => \A id \in Range(dequeued) : id \in completed]_vars
    /\ []((NeverReturns /\ runnable) =>
            \A j \in 1..Len(results) :
                results[j] = "pending" => ENABLED (runnable /\ CallHandler(j, "returned")))
    /\ [][NeverReturns => dequeued' = dequeued]_vars

\* the conversation history of a user as a reader finds it: the dicts in order
History(u) ==
    LET h == user_contexts[u].conversation_history
    IN  [i \in 1..Len(h) |-> messages[h[i]]]

\* the messages appended for a user, in append order
AppendedFor(u) ==
    LET mine(a) == a.user_id = u
        log == SelectSeq(appends, mine)
    IN  [i \in 1..Len(log) |-> log[i].message]

\* the step is an add_to_conversation_history call
AppendStep == Len(appends') = Len(appends) + 1

\* C15: a user's conversation history never holds more than 1000 messages; it
\* is the sequence of the messages appended for that user, cut to its last
\* 1000; and an append for one user leaves what the histories of the other
\* users hold unchanged.
C15_ConversationCap ==
    /\ [](\A u \in DOMAIN user_contexts :
            LET h == user_contexts[u].conversation_history
                n == Len(AppendedFor(u))
            IN  /\ Len(h) <= max_conversation
                /\ h = IF n <= max_conversation THEN AppendedFor(u)
                       ELSE SubSeq(AppendedFor(u), n - max_conversation + 1, n))
    /\ [][AppendStep =>
            \A u \in DOMAIN user_contexts :
                u # appends'[Len(appends')].user_id => History(u)' = History(u)]_vars

\* C15 for the lists alone: the cap and the order of the appended messages
C15_CapAndOrder ==
    \A u \in DOMAIN user_contexts :
        LET h == user_contexts[u].conversation_history
            n == Len(AppendedFor(u))
        IN  /\ Len(h) <= max_conversation
            /\ h = IF n <= max_conversation THEN AppendedFor(u)
                   ELSE SubSeq(AppendedFor(u), n - max_conversation + 1, n)

\* the call in the slot is past the lock and has not returned
InBody(slot) == pending(slot) /\ tasks[slot].pc # "acquire"

\* the step is the return of the call in the slot
Returns(slot) == pending(slot) /\ (~pending(slot))'

\* the step is the one in which the call in the slot takes the lock and reads
TakesLock(slot) == pending(slot) /\ tasks[slot].pc = "acquire" /\ InBody(slot)'

\* the step is a get_stats call
StatsStep == finished'.op = "get_stats" /\ finished'.n # finished.n

\* a call run from the statement it is at to its return, nothing in between
RECURSIVE Run(_, _)
Run(task, st) ==
    IF task.pc = "done" THEN [task |-> task, st |-> st]
    ELSE LET r == phase(task, st) IN Run(r.task, r.st)

\* the call in the slot as a single step on the manager it found
Sequential(slot) ==
    Run([tasks[slot] EXCEPT !.pc = firstPhase(tasks[slot].op), !.local = {}],
        tasks[slot].pre)

\* an end_session has removed the session and not yet deleted its entries
HalfEnded ==
    \E slot \in Slots :
        /\ tasks[slot].op = "end_session"
        /\ tasks[slot].pc \in {"collect", "delete"}

\* C21: the calls of the manager are atomic with respect to one another: the
\* bodies of two calls never overlap; each call returns what it would return,
\* and leaves the manager as it would leave it, run alone on the manager it
\* found when it took the lock; while a call is in its body (a get_context
\* between its read and its delete, say) nothing but that call changes the
\* manager; and no call, get_stats included, reads the manager between the
\* removal of a session and the deletion of its entries.
C21_Atomic ==
    /\ [](Cardinality({slot \in Slots : InBody(slot)}) <= 1)
    /\ [][\A slot \in Slots :
             Returns(slot) => /\ finished'.ret = Sequential(slot).task.ret
                              /\ Manager' = Sequential(slot).st]_vars
    /\ [][\A slot \in Slots :
             (InBody(slot) /\ Manager' # Manager) => tasks'[slot].pc # tasks[slot].pc]_vars
    /\ [][StatsStep => \A slot \in Slots : ~InBody(slot)]_vars
    /\ [][(StatsStep \/ \E slot \in Slots : TakesLock(slot)) => ~HalfEnded]_vars

\* C21 witness: an end_session has removed its session and found the entries
\* to delete while another call, scheduled before, waits for its turn
C21_Witness ==
    \E a, b \in Slots :
        /\ tasks[a].op = "end_session"
        /\ tasks[a].pc = "delete"
        /\ tasks[a].local # {}
        /\ tasks[b].op = "get_context"
        /\ tasks[b].pc = "acquire"

\* the step is a run of the sweep
SweepStep == last'.op = "cleanup" /\ now' = now

\* the entries of a table whose expires_at, if any, is not earlier than t
Unexpired(table, t) ==
    LET keep == {k \in DOMAIN table : \A e \in table[k].expires_at : ~(e < t)}
    IN  [k \in keep |-> table[k]]

\* C22: one run of the sweep removes from each of the four scope tables
\* exactly the entries whose expires_at is earlier than the current time, and
\* leaves the others (those without expires_at among them), the session
\* mapping and the UserContexts as they are.
C22_Sweep ==
    [][SweepStep =>
         /\ \A scope \in ContextScope : contexts'[scope] = Unexpired(contexts[scope], now)
         /\ UNCHANGED <<sessions, user_contexts>>]_vars

\* C22 witness: a sweep has removed an entry and left another, a session and
\* its user in place
C22_Witness ==
    /\ last.op = "cleanup"
    /\ last.n >= 1
    /\ \E scope \in ContextScope : DOMAIN contexts[scope] # {}
    /\ DOMAIN sessions # {}
    /\ DOMAIN user_contexts # {}

\* the step is a remove_context call
RemoveStep == last'.op = "remove_context" /\ now' = now

\* C23: remove_context returns true and deletes the entry exactly when an
\* entry exists under the effective key in that scope, leaving every other key
\* and scope, the sessions and the users as they are; otherwise it returns
\* false and changes nothing.  A get_context that finds no entry under its
\* effective key returns the default, and an entry comes to exist under an
\* effective key only by a set_context of that key: after a true return the
\* key reads as the default until it is set again.
C23_Remove ==
    /\ [][RemoveStep =>
            LET fk == EffectiveKey(last'.key, last'.scope, last'.sid)
                tbl == contexts[last'.scope]
            IN  IF fk \in DOMAIN tbl
                THEN /\ last'.ret = "True"
                     /\ contexts' = [contexts EXCEPT
                                        ![last'.scope] = [k \in DOMAIN tbl \ {fk} |-> tbl[k]]]
                     /\ UNCHANGED <<sessions, user_contexts>>
                ELSE /\ last'.ret = "False"
                     /\ UNCHANGED <<contexts, sessions, user_contexts>>]_vars
    /\ [][GetStep =>
            (EffectiveKey(last'.key, last'.scope, last'.sid) \notin DOMAIN contexts[last'.scope]
                => last'.ret = last'.arg)]_vars
    /\ [][\A scope \in ContextScope :
             \A fk \in DOMAIN contexts'[scope] \ DOMAIN contexts[scope] :
                 /\ last'.op = "set_context"
                 /\ last'.scope = scope
                 /\ EffectiveKey(last'.key, last'.scope, last'.sid) = fk]_vars

\* C23 witness: a remove_context has returned true, its key is gone and
\* another entry of the same scope stays
C23_Witness ==
    /\ last.op = "remove_context"
    /\ last.ret = "True"
    /\ EffectiveKey(last.key, last.scope, last.sid) \notin DOMAIN contexts[last.scope]
    /\ DOMAIN contexts[last.scope] # {}

\* the step is a create_session call
CreateStep == last'.op = "create_session" /\ uuids' = uuids + 1

\* the session ids create_session has returned so far
Issued == {uuid4(i) : i \in 1..uuids}

\* what a UserContext holds for its user: preferences and history
Kept(uc) == <<uc.preferences, uc.conversation_history>>

\* C24: create_session(u) returns an id that was never returned before, not
\* even for a session that has ended meanwhile, and records id -> u beside the
\* sessions there are; it creates an empty UserContext for u only when u has
\* none, an existing one keeping its preferences and history; the scope tables
\* and the UserContexts of the other users stay as they are.  Hence the user
\* of every active session has a UserContext.
C24_CreateSession ==
    /\ [][CreateStep =>
            LET id == last'.sid
                u == last'.arg
            IN  /\ id \notin Issued
                /\ id \notin DOMAIN sessions
                /\ sessions' = [t \in DOMAIN sessions \cup {id} |->
                                   IF t = id THEN u ELSE sessions[t]]
                /\ DOMAIN user_contexts' = DOMAIN user_contexts \cup {u}
                /\ Kept(user_contexts'[u]) =
                       IF u \in DOMAIN user_contexts THEN Kept(user_contexts[u])
                       ELSE << << >>, << >> >>
                /\ \A w \in DOMAIN user_contexts \ {u} :
                       user_contexts'[w] = user_contexts[w]
                /\ contexts' = contexts]_vars
    /\ [](\A id \in DOMAIN sessions : sessions[id] \in DOMAIN user_contexts)

\* C24 witness: after a first session has ended, a second one was created for
\* a user who had preferences and a history, and kept them, beside an entry in
\* the SESSION table
C24_Witness ==
    /\ last.op = "create_session"
    /\ last.sid = uuid4(2)
    /\ uuid4(1) \notin DOMAIN sessions
    /\ user_contexts[last.arg].preferences # << >>
    /\ user_contexts[last.arg].conversation_history # << >>
    /\ DOMAIN contexts[SESSION] # {}

\* the step is an update_user_preference call (every call writes the log)
PrefStep ==
    /\ last'.op = "update_user_preference"
    /\ UNCHANGED <<contexts, sessions, appends, uuids, sets>>

\* the preferences and the history of a user, empty when there is no UserContext
KeptOf(table, u) == IF u \in DOMAIN table THEN Kept(table[u]) ELSE << << >>, << >> >>

\* C25: update_user_preference(u, k, v) and add_to_conversation_history(u, m)
\* return true and leave a UserContext for u, created when missing; the
\* former sets preference k of u to v and changes no other preference, no
\* history, no other user, no session and no scope table.  A UserContext
\* that exists stays: no step removes it, its preferences change only by an
\* update_user_preference for its user, and its history only by an
\* add_to_conversation_history for its user, which appends to it (and cuts it
\* to its last 1000 messages).
C25_UserContextStays ==
    /\ [][PrefStep =>
            LET u == last'.key[1]
                k == last'.key[2]
                old == KeptOf(user_contexts, u)
            IN  /\ last'.ret = "True"
                /\ DOMAIN user_contexts' = DOMAIN user_contexts \cup {u}
                /\ user_contexts'[u].preferences =
                       [x \in DOMAIN old[1] \cup {k} |->
                           IF x = k THEN last'.arg ELSE old[1][x]]
                /\ user_contexts'[u].conversation_history = old[2]
                /\ \A w \in DOMAIN user_contexts \ {u} :
                       user_contexts'[w] = user_contexts[w]]_vars
    /\ [][AppendStep =>
            /\ last'.ret = "True"
            /\ appends'[Len(appends')].user_id \in DOMAIN user_contexts']_vars
    /\ [][\A u \in DOMAIN user_contexts :
             /\ u \in DOMAIN user_contexts'
             /\ user_contexts'[u].preferences # user_contexts[u].preferences
                    => (PrefStep /\ last'.key[1] = u)
             /\ user_contexts'[u].conversation_history # user_contexts[u].conversation_history
                    => /\ AppendStep
                       /\ appends'[Len(appends')].user_id = u
                       /\ LET h == Append(user_contexts[u].conversation_history,
                                          appends'[Len(appends')].message)
                          IN  user_contexts'[u].conversation_history =
                                  IF Len(h) <= max_conversation THEN h
                                  ELSE SubSeq(h, Len(h) - max_conversation + 1, Len(h))]_vars

\* C25 witness: the one user with a history holds it, and preferences, after
\* the last session there was has ended
C25_Witness ==
    /\ last.op = "end_session"
    /\ uuids > 0
    /\ DOMAIN sessions = {}
    /\ \E u \in DOMAIN user_contexts :
           /\ user_contexts[u].preferences # << >>
           /\ user_contexts[u].conversation_history # << >>
           /\ \A a \in Range(appends) : a.user_id = u

\* the step is a start() or a stop() of the context manager
LifeStep(op) == last'.op = op /\ last' # last

\* C26: there is never more than one sweep task; start() while a task exists
\* creates none; stop() before any start(), and stop() after a stop(), change
\* nothing and return without raising; no start() or stop() changes a scope
\* table, a session or a UserContext.
C26_Lifecycle ==
    /\ [](sweepers <= 1)
    /\ [][(LifeStep("start") /\ cleanup_task # "none") =>
             UNCHANGED <<cleanup_task, sweepers>>]_vars
    /\ [][(LifeStep("stop") /\ cleanup_task # "running") =>
             (last'.ret = "None" /\ UNCHANGED <<cleanup_task, sweepers>>)]_vars
    /\ [][(LifeStep("start") \/ LifeStep("stop")) =>
             UNCHANGED <<contexts, sessions, user_contexts, uuids, sets, now>>]_vars

\* C26 witness: stop() was called right after a stop() that ended the task of
\* an earlier start(), beside a session, its user and an entry
C26_Witness ==
    /\ last.op = "stop"
    /\ last.n = 1
    /\ cleanup_task \in TaskEnds
    /\ sessions # << >>
    /\ DOMAIN contexts[SESSION] # {}

\* the get() of the next iteration of the dispatch loop raises
GetRaises ==
    /\ running
    /\ processor_task = "polling"
    /\ event_queue # << >>
    /\ ~get(event_queue).ok

\* the step is one sweep of the cleanup loop, finished or raising
SweepRuns == last'.op = "cleanup" /\ last' # last

QueryStep == answer' # answer

\* the last n elements of a list, all of them when it has fewer
LastN(list, n) ==
    IF n >= Len(list) THEN list ELSE SubSeq(list, Len(list) - n + 1, Len(list))

\* the events of the history of one type, of every type when the argument is
\* left out
Matching(event_type) ==
    IF event_type = "None" THEN event_history
    ELSE SelectSeq(event_history, LAMBDA e : e.type = event_type)

\* C28: get_event_history(event_type, limit) with limit >= 0 returns the last
\* `limit` events of the history that have the type (of every type when the
\* type is left out), in publish order, so at most `limit` events; the call
\* leaves the history as it is.
C28_EventHistory ==
    [][QueryStep =>
          /\ event_history' = event_history
          /\ answer'.limit >= 0 =>
                 /\ answer'.result = LastN(Matching(answer'.event_type), answer'.limit)
                 /\ Len(answer'.result) <= answer'.limit]_vars

\* C28 for a positive limit and a type that is left out or not empty: the
\* part of C28 the code keeps
C28_PositiveLimit ==
    [][QueryStep =>
          /\ event_history' = event_history
          /\ (answer'.limit >= 1 /\ answer'.event_type # "") =>
                 /\ answer'.result = LastN(Matching(answer'.event_type), answer'.limit)
                 /\ Len(answer'.result) <= answer'.limit]_vars

\* limit 0 was asked of a history that holds events, and events came back
C28_LimitZero ==
    /\ answer.limit = 0
    /\ answer.event_type = "t1"
    /\ Len(answer.result) > 0

\* the loop takes an event whose type has no handler: no entry in the table,
\* or an entry left empty by unsubscribe
DropStep ==
    /\ Dequeues
    /\ HandlersOf(subscribers, EventOf(dequeued'[Len(dequeued')]).type) = << >>

\* what C29 says of the event taken in a DropStep
Dropped(id) ==
    /\ id \in completed'
    /\ calls' = calls
    /\ raised' = raised
    /\ running'
    /\ processor_task' = "polling"
    /\ current' = current

\* C29: an event whose type has no handler when the loop takes it was
\* recorded in the history when it was published; taking it invokes no
\* handler and raises nothing, and the loop is back at its top, ready to take
\* the next event of the queue; no handler is ever invoked for it.
C29_NoSubscriberDrop ==
    /\ [][DropStep =>
            LET id == dequeued'[Len(dequeued')]
            IN  /\ EventOf(id) \in Range(event_history)
                /\ Dropped(id)]_vars
    /\ [](\A id \in completed : offered[id] = {} => \A h \in Handlers : calls[id][h] = 0)

\* C29 for the events publish accepted: the part of C29 the code keeps
C29_AcceptedDrop ==
    /\ [][DropStep =>
            LET id == dequeued'[Len(dequeued')]
            IN  /\ published[id].ret => EventOf(id) \in Range(event_history)
                /\ Dropped(id)]_vars
    /\ [](\A id \in completed : offered[id] = {} => \A h \in Handlers : calls[id][h] = 0)

\* an event publish refused was taken by the loop when its type had no
\* handler; it is in no history
C29_RefusedDropped ==
    \E id \in completed :
        /\ ~published[id].ret
        /\ offered[id] = {}
        /\ EventOf(id) \notin Range(event_history)

\* the event was published by a handler
Chained(id) == EventOf(id).type = ChainType

\* the event whose handler published a chained event
ParentOf(id) == CHOOSE p \in 1..Len(ChainData) : ChainData[p] = EventOf(id).data

\* the step is a publish made by a handler
ChainStep ==
    /\ Len(published') = Len(published) + 1
    /\ published'[Len(published')].event.type = ChainType

\* a handler task of an event being dispatched has still to run, or runs
HandlersPending(id) ==
    \/ id = current /\ \E i \in 1..Len(results) : results[i] = "pending"
    \/ id = orphan.current /\ \E i \in 1..Len(orphan.results) : orphan.results[i] = "pending"

\* C30: the publish of a handler never has to wait: whatever the queue
\* holds, the handler that publishes can run to its end while its event is
\* being dispatched.  The chained event passes through the queue under its
\* priority, and the loop takes it only when the event whose handler
\* published it is through: every handler of that event has finished.
C30_ChainedPublish ==
    /\ [](\A i \in 1..Len(results) :
             (processor_task = "gathering" /\ results[i] = "pending"
              /\ taskHandler(i) = Chainer) => ENABLED ChainCall(i))
    /\ [][ChainStep =>
            \E i \in 1..Len(event_queue') :
                /\ event_queue'[i].event = published'[Len(published')].event
                /\ event_queue'[i].priority = HIGH]_vars
    /\ [][(Dequeues /\ Chained(dequeued'[Len(dequeued')])) =>
            LET p == ParentOf(dequeued'[Len(dequeued')])
            IN  ~HandlersPending(p)]_vars

\* C30 while no stop() has been called: the part of C30 the code keeps
C30_NeverStopped ==
    /\ [](\A i \in 1..Len(results) :
             (processor_task = "gathering" /\ results[i] = "pending"
              /\ taskHandler(i) = Chainer) => ENABLED ChainCall(i))
    /\ [][ChainStep =>
            \E i \in 1..Len(event_queue') :
                /\ event_queue'[i].event = published'[Len(published')].event
                /\ event_queue'[i].priority = HIGH]_vars
    /\ [][(Dequeues /\ Chained(dequeued'[Len(dequeued')]) /\ ~everStopped) =>
            LET p == ParentOf(dequeued'[Len(dequeued')])
            IN  ~HandlersPending(p)]_vars

\* a chained event has been taken from the queue while a handler of the
\* event it was published for has still to run
C30_Overtaken ==
    \E id \in Range(dequeued) :
        /\ Chained(id)
        /\ HandlersPending(ParentOf(id))

\* the ids of the events in the queue
Queued(queue) == {queue[i].event.id : i \in 1..Len(queue)}

\* the step is a stop() of the running bus
StopsBus == running /\ ~running'

\* the step starts a loop on a bus that was not running
StartsBus == ~running /\ running'

\* C31: no event is taken from the queue twice and no handler is invoked
\* twice for an event, whatever start, stop and publish calls are made.  A
\* stop() takes nothing out of the queue (but the item the loop's get() had
\* ready, which the loop goes on to dispatch); the loop started next finds
\* what was queued and can take it, and whatever leaves the queue is handed
\* to the dispatch.  An event that has been taken is never queued again:
\* handlers are invoked for it only while its fan-out runs, so not after a
\* stop() that cancelled the fan-out.
C31_AtMostOnce ==
    /\ [](NoDuplicates(dequeued))
    /\ [](\A id \in 1..Len(published) : \A h \in Handlers : calls[id][h] <= 1)
    /\ [][StopsBus => (Len(dequeued') = Len(dequeued) => event_queue' = event_queue)]_vars
    /\ [][StartsBus => /\ processor_task' = "polling"
                       /\ Queued(event_queue) \subseteq Queued(event_queue')]_vars
    /\ []((running /\ processor_task = "polling" /\ event_queue # << >>) =>
             ENABLED ProcessEvent)
    /\ [][Queued(event_queue) \ Queued(event_queue') \subseteq Range(dequeued')]_vars
    /\ [](\A id \in Range(dequeued) : ~InQueue(id))
    /\ [][\A id \in 1..Len(published) :
             calls'[id] # calls[id] => id \in {current, orphan.current}]_vars

\* C31 but for the events a raising get() drops: the part of C31 the code
\* keeps.  An event leaves the queue without being dispatched only in a step
\* in which the get() of a loop raises.
C31_ButRaisingGet ==
    /\ [](NoDuplicates(dequeued))
    /\ [](\A id \in 1..Len(published) : \A h \in Handlers : calls[id][h] <= 1)
    /\ [][StopsBus => (Len(event_queue') = Len(event_queue) => event_queue' = event_queue)]_vars
    /\ [][StartsBus => /\ processor_task' = "polling"
                       /\ Queued(event_queue) \subseteq Queued(event_queue')]_vars
    /\ []((running /\ processor_task = "polling" /\ event_queue # << >>) =>
             ENABLED ProcessEvent)
    /\ [][Queued(event_queue) \ Queued(event_queue') \subseteq Range(dequeued')
          \/ ~get(event_queue).ok]_vars
    /\ [](\A id \in Range(dequeued) : ~InQueue(id))
    /\ [][\A id \in 1..Len(published) :
             calls'[id] # calls[id] => id \in {current, orphan.current}]_vars

\* an event publish accepted was in the queue when the bus was stopped; a
\* loop started afterwards has emptied the queue and the event was never
\* handed to the dispatch
C31_LostAfterRestart ==
    /\ everStopped
    /\ running
    /\ event_queue = << >>
    /\ \E id \in 1..Len(published) : published[id].ret /\ id \notin Range(dequeued)

\* C31 witness: the fan-out of the first event was cancelled by a stop()
\* after one of its two handlers had been invoked; the second event, queued
\* meanwhile, was dispatched to both handlers by the loop started afterwards
C31_Witness ==
    /\ Len(published) = 2
    /\ dequeued = <<1, 2>>
    /\ 1 \notin completed
    /\ current # 1
    /\ orphan.current # 1
    /\ offered[1] = Handlers
    /\ \E h \in Handlers : calls[1][h] = 1
    /\ \E h \in Handlers : calls[1][h] = 0
    /\ 2 \in completed
    /\ \A h \in Handlers : calls[2][h] = 1

\* ------------------------------------------------- C32: stale session ids

\* a set_context call of scope SESSION has returned
StaleSetStep ==
    /\ last'.op = "set_context"
    /\ sets' = sets + 1

\* an end_session call has returned
EndReturns ==
    /\ last' # last
    /\ last'.op = "end_session"

\* the entries of key "k" stored under session ids that name no active session
StaleEntries ==
    {FullKey(<<"k">>, SESSION, s) : s \in {t \in StaleIds : stale(t)}}
        \cap DOMAIN contexts[SESSION]

\* what the claim says of the session ids in ids: a set_context of scope
\* SESSION with such an id, stale at the call, returns True and stores the
\* entry under "<id>:<key>"; get_context with that id reads it; and no
\* end_session call, whatever its argument, removes it
StaleHolds(ids) ==
    /\ StaleSetStep /\ last'.sid \in ids =>
           /\ last'.ret = "True"
           /\ FullKey(last'.key, SESSION, last'.sid) \in DOMAIN contexts'[SESSION]
           /\ contexts'[SESSION][FullKey(last'.key, SESSION, last'.sid)].value
                  = last'.arg
    /\ last'.op = "get_context" /\ last' # last /\ last'.sid \in ids
           /\ FullKey(last'.key, SESSION, last'.sid) \in DOMAIN contexts[SESSION] =>
           last'.ret = contexts[SESSION][FullKey(last'.key, SESSION, last'.sid)].value
    /\ EndReturns =>
           \A s \in ids :
               stale(s) /\ FullKey(<<"k">>, SESSION, s) \in DOMAIN contexts[SESSION] =>
                   /\ FullKey(<<"k">>, SESSION, s) \in DOMAIN contexts'[SESSION]
                   /\ contexts'[SESSION][FullKey(<<"k">>, SESSION, s)]
                          = contexts[SESSION][FullKey(<<"k">>, SESSION, s)]

\* C32: set_context in scope SESSION with a session id that was never created
\* or has already ended stores a namespaced entry and returns True; the entry
\* stays readable with that id and no later end_session call removes it
C32_StaleSession == [][StaleHolds(StaleIds)]_vars

\* C32 for session ids that have the form of a uuid (no ":" in them): holds
C32_UuidSession == [][StaleHolds({s \in StaleIds : Len(s) = 1})]_vars

\* C32: an end_session call has removed an entry that was stored under a
\* session id that named no session
C32_RemovedByEnd ==
    /\ last.op = "end_session"
    /\ last.n >= 1

\* C32: an entry stored under an ended session id is there after a later
\* end_session call
C32_Witness ==
    /\ last.op = "end_session"
    /\ uuid4(1) \in Created \ DOMAIN sessions
    /\ FullKey(<<"k">>, SESSION, uuid4(1)) \in DOMAIN contexts[SESSION]

\* --------------------------------------------- C33: writing over an entry

\* a set_context call has returned that found an entry under its key
OverwriteStep ==
    /\ last'.op = "set_context"
    /\ sets' = sets + 1
    /\ FullKey(last'.key, last'.scope, last'.sid) \in DOMAIN contexts[last'.scope]

\* an entry is readable at clock reading t: a get_context would return it
Readable(entry, t) ==
    IF entry.expires_at = {} THEN TRUE ELSE \A e \in entry.expires_at : ~(t > e)

\* C33: a set_context on a key that has an entry replaces the entry as a
\* whole: value, created_at, expires_at and metadata are those of the call and
\* nothing of the old entry is left; written without expires_in, the entry
\* never expires whatever TTL the old one had; written over an entry that has
\* expired and is still stored, the key is readable with the new value
C33_Overwrite ==
    [][OverwriteStep =>
          LET scope == last'.scope
              full_key == FullKey(last'.key, scope, last'.sid)
              old == contexts[scope][full_key]
              new == contexts'[scope][full_key]
          IN  /\ new.key = full_key /\ new.scope = scope
              /\ new.value = last'.arg
              /\ new.created_at = now
              /\ new.metadata = (IF last'.metadata \in {{}, {<< >>}} THEN << >>
                                 ELSE CHOOSE d \in last'.metadata : TRUE)
              /\ new.expires_at = (IF last'.ttl \in {{}, {0}} THEN {}
                                   ELSE {now + d : d \in last'.ttl})
              /\ DOMAIN new = DOMAIN old
              /\ last'.ttl = {} =>
                     \A t \in 0..MaxTime + 1 : Readable(new, t)
              /\ ~Readable(old, now) =>
                     /\ Readable(new, now')
                     /\ new.value = last'.arg
              /\ \A k \in DOMAIN contexts[scope] \ {full_key} :
                     /\ k \in DOMAIN contexts'[scope]
                     /\ contexts'[scope][k] = contexts[scope][k]]_vars

\* C33: an entry with metadata that had expired and was still stored has been
\* written over without expires_in and without metadata, and the get_context
\* after it will find an entry that has no TTL and no metadata
C33_Witness ==
    /\ last.op = "set_context"
    /\ last.n = 2
    /\ last.ttl = {}
    /\ last.metadata = {}
    /\ now = MaxTime
    /\ LET entry == contexts[last.scope][FullKey(last.key, last.scope, last.sid)]
       IN  entry.expires_at = {} /\ entry.metadata = << >> /\ entry.created_at = now

\* ------------------------------------------- C34: which keys are namespaced

\* a set_context, get_context or remove_context call has returned
KeyedStep ==
    /\ last' # last
    /\ last'.op \in {"set_context", "get_context", "remove_context"}

\* the key the claim gives a call: "<session_id>:<key>" in scope SESSION with
\* a session id, the key as it is in every other case
Slot(call) ==
    IF call.scope = SESSION /\ call.sid # NoSession
    THEN call.sid \o <<":">> \o call.key ELSE call.key

\* C34: only SESSION keys are namespaced.  In USER, GLOBAL and TASK the
\* session_id of a call is ignored: set_context writes the bare key,
\* get_context returns what is under the bare key whatever session_id it or
\* the writer gave, remove_context removes it; a SESSION call with no
\* session_id uses the bare key too; and a call in one scope leaves the
\* tables of the other scopes as they are
C34_Namespacing ==
    [][KeyedStep =>
          LET call == last'
              table == contexts[call.scope]
              table2 == contexts'[call.scope]
          IN  /\ \A s \in ContextScope \ {call.scope} : contexts'[s] = contexts[s]
              /\ \A k \in DOMAIN table \ {Slot(call)} :
                     k \in DOMAIN table2 /\ table2[k] = table[k]
              /\ DOMAIN table2 \subseteq DOMAIN table \cup {Slot(call)}
              /\ call.op = "set_context" =>
                     /\ Slot(call) \in DOMAIN table2
                     /\ table2[Slot(call)].value = call.arg
              /\ call.op = "get_context" =>
                     /\ call.ret = (IF Slot(call) \in DOMAIN table
                                    THEN table[Slot(call)].value ELSE call.arg)
                     /\ table2 = table
              /\ call.op = "remove_context" =>
                     /\ Slot(call) \notin DOMAIN table2
                     /\ call.ret = (IF Slot(call) \in DOMAIN table THEN "True" ELSE "False")]_vars

\* C34: a get_context in scope USER with the id of the second session has
\* returned "v1", written there with another session id or none, while the
\* same key holds "v2" in scope GLOBAL and SESSION holds both the bare key and
\* the key of the first session
C34_Witness ==
    /\ last.op = "get_context"
    /\ last.scope = USER
    /\ last.sid = uuid4(2)
    /\ last.ret = "v1"
    /\ <<"k">> \in DOMAIN contexts[GLOBAL]
    /\ contexts[GLOBAL][<<"k">>].value = "v2"

\* C34: a SESSION get_context with no session id has returned the value a
\* SESSION set_context with no session id stored under the bare key, and the
\* entry of the first session is another one
C34_BareSession ==
    /\ last.op = "get_context"
    /\ last.scope = SESSION
    /\ last.sid = NoSession
    /\ last.ret = "v1"
    /\ FullKey(<<"k">>, SESSION, uuid4(1)) \in DOMAIN contexts[SESSION]
    /\ contexts[SESSION][FullKey(<<"k">>, SESSION, uuid4(1))].value = "v2"

\* ------------------------------------------------------- C35: get_stats()

\* a call of the manager has returned
LoggedStep(op) == last' # last /\ last'.op = op

\* the users a step refers to
Referenced ==
    IF last' = last THEN {}
    ELSE IF last'.op = "create_session" THEN {last'.arg}
    ELSE IF last'.op = "update_user_preference" THEN {last'.key[1]}
    ELSE {}

\* the entries that have expired and are still stored
StoredExpired ==
    {<<s, k>> \in ContextScope \X UNION {DOMAIN contexts[s] : s \in ContextScope} :
        /\ k \in DOMAIN contexts[s]
        /\ contexts[s][k].expires_at # {}
        /\ \A e \in contexts[s][k].expires_at : now > e}

\* C35: get_stats() reports the number of sessions created and not yet ended
\* (one more with every create_session, one less with every end_session of an
\* active session, else unchanged), the number of distinct users referenced so
\* far (a user is added when first named and never dropped) and for each scope
\* the number of entries stored in its table, and changes nothing.  An entry
\* that has expired stays stored, and counted, until a get_context on its key,
\* a sweep or another call that removes or replaces entries takes it out:
\* neither the passing of time nor get_stats() removes it, and
\* remove_context on its key returns True
C35_Stats ==
    /\ [](Cardinality(DOMAIN sessions) <= uuids)
    /\ [][/\ LoggedStep("get_stats") =>
                /\ last'.stats.active_sessions = Cardinality(DOMAIN sessions)
                /\ last'.stats.user_contexts = Cardinality(DOMAIN user_contexts)
                /\ \A s \in ContextScope :
                       last'.stats.context_counts[s] = Cardinality(DOMAIN contexts[s])
                /\ UNCHANGED <<contexts, user_contexts, sessions>>
          /\ Cardinality(DOMAIN sessions') =
                 (IF LoggedStep("create_session") THEN Cardinality(DOMAIN sessions) + 1
                  ELSE IF LoggedStep("end_session") /\ last'.sid \in DOMAIN sessions
                  THEN Cardinality(DOMAIN sessions) - 1
                  ELSE Cardinality(DOMAIN sessions))
          /\ DOMAIN user_contexts' = DOMAIN user_contexts \cup Referenced
          /\ now' # now => contexts' = contexts
          /\ \A x \in StoredExpired :
                 \/ x[2] \in DOMAIN contexts'[x[1]]
                 \/ last'.op = "cleanup"
                 \/ /\ last'.op \in {"get_context", "remove_context"}
                    /\ last'.scope = x[1]
                    /\ FullKey(last'.key, last'.scope, last'.sid) = x[2]
                 \/ /\ last'.op = "end_session"
                    /\ x[1] = SESSION
          /\ LoggedStep("remove_context")
                 /\ <<last'.scope, FullKey(last'.key, last'.scope, last'.sid)>> \in StoredExpired
                 => last'.ret = "True"]_vars

\* C35: get_stats() has counted an entry that has expired and is still
\* stored, beside one active session of two created and two users
C35_Witness ==
    /\ last.op = "get_stats"
    /\ last.stats.active_sessions = 1
    /\ uuids = 2
    /\ last.stats.user_contexts = 2
    /\ last.stats.context_counts[GLOBAL] = 1
    /\ <<GLOBAL, <<"k">>>> \in StoredExpired

\* C35: remove_context has returned True for an entry that had expired
C35_RemovedExpired ==
    /\ last.op = "remove_context"
    /\ last.ret = "True"
    /\ sets = 1
    /\ now = MaxTime
    /\ cleanup_task = "none"

\* ------------------------------------------- C36: no sweep after a stop()

\* stop() has been called on a started manager: the task of the first
\* start() has ended
Stopped == cleanup_task \in TaskEnds

C36_LazyRemoval ==
    /\ last.op = "get_context"
    /\ last.n = 1
    /\ Stopped

\* ------------------------------------------- C37: stop() inside a handler

\* a handler is suspended in the stop() it called
StoppingInHandler ==
    \/ \E i \in 1..Len(results) : results[i] = "stopping"
    \/ \E i \in 1..Len(orphan.results) : orphan.results[i] = "stopping"

\* the event whose handler is suspended in stop()
Stuck ==
    IF \E i \in 1..Len(results) : results[i] = "stopping" THEN current ELSE orphan.current

\* the loop task that ran the handler has ended
LoopEnded == processor_task = "done" /\ orphan = NoLoop

\* C37: a stop() called by a handler while its event is dispatched returns,
\* and when it has returned the loop has ended and the bus is not running
C37_StopInHandler ==
    StoppingInHandler ~> (~StoppingInHandler /\ awaited = "none" /\ LoopEnded /\ ~running)

\* C37: what the code does instead: from the stop() of a handler on, that
\* handler stays suspended in it, the loop task that waits for the handler
\* never ends, and the event is never completed
C37_WaitsForever ==
    [][StoppingInHandler =>
          /\ StoppingInHandler'
          /\ awaited' # "none"
          /\ Stuck \notin completed'
          /\ ~LoopEnded']_vars

\* C37: a handler is suspended in stop(), the bus is not running, and the
\* loop task is still waiting for the handlers of the event
C37_Deadlocked ==
    /\ StoppingInHandler
    /\ ~running
    /\ processor_task = "gathering"
    /\ awaited = "main"
    /\ event_queue # << >>

\* ------------------------------------- C38: counts and types of subscribers

\* a call of the bus API has returned
BusStep(op) == reply' # reply /\ reply'.op = op

\* C38: get_subscriber_count(t) returns the number of distinct handlers
\* registered for t at the call, 0 for a type never subscribed to;
\* get_all_event_types() returns every type that was ever subscribed to (the
\* types of the table grow with each subscribe and never shrink, an
\* unsubscribe of the last handler included); neither call changes the table
C38_Introspection ==
    [][/\ BusStep("get_subscriber_count") =>
              /\ reply'.count = Cardinality({h \in Handlers : h \in Registered(reply'.type)})
              /\ reply'.type \notin DOMAIN subscribers => reply'.count = 0
              /\ subscribers' = subscribers
       /\ BusStep("get_all_event_types") =>
              /\ reply'.types = DOMAIN subscribers
              /\ subscribers' = subscribers
       /\ DOMAIN subscribers' =
              DOMAIN subscribers \cup (IF BusStep("subscribe") THEN {reply'.type} ELSE {})]_vars

\* C38: get_all_event_types() has listed a type whose handlers have all been
\* unsubscribed, beside a type with two handlers
C38_Witness ==
    /\ reply.op = "get_all_event_types"
    /\ reply.types = {"t1", "t2"}
    /\ subscribers["t2"] = << >>
    /\ Len(subscribers["t1"]) = 2

\* C38: get_subscriber_count has returned 0 for a type that is listed
C38_CountZero ==
    /\ reply.op = "get_subscriber_count"
    /\ reply.count = 0
    /\ reply.type \in DOMAIN subscribers

====
